---- MODULE Spec2Model ----
(***************************************************************************)
(* A model of pygor (src/pygor.go), the translator of a Python AST into    *)
(* Go code built with the jennifer builder.                                *)
(*                                                                         *)
(* The translator is a depth-first walk: parseBody visits the statements   *)
(* of a body in order, pushes a Scope around every block and calls goExpr  *)
(* on the expressions.  The model keeps the chain of Scope objects, each   *)
(* with the locals of the parseBody call running in it, and the fragments  *)
(* built so far.  The statements of the module arrive one at a time, in    *)
(* source order: entering a block is the part of its handler up to the     *)
(* nested parseBody call, leaving it is the part after that call.          *)
(***************************************************************************)
EXTENDS Integers, Sequences, FiniteSets, TLC

VARIABLES
    panicUnknown,   \* the -panic flag (strict mode)
    lineno,         \* the -lines flag
    module,         \* index of the file of flag.Args() being translated
    proc,           \* the translator process: scope chain, alias maps, status
    alone,          \* the same module translated by a fresh process
    input,          \* a body given ahead (specifications over expressions)
    ev,             \* the statement just visited
    run,            \* the emitted program of a generator expression, running
    rt              \* a call of the runtime package: arguments and result

vars == <<panicUnknown, lineno, module, proc, alone, input, ev, run, rt>>

-----------------------------------------------------------------------------
(* Bounds of the model.                                                    *)

MaxStmts == 3
MaxDepth == 2
MaxClassStmts == 6
MaxClassDepth == 4
MaxOps == 2
MaxGens == 1
MaxRangeArgs == 4
MaxSiblings == 2
MaxModules == 2
MaxBodyStmts == 4
MaxBodyDepth == 2
MaxCount == 2
MaxElems == 2
MaxBlockStmts == 4
MaxBlockDepth == 2

-----------------------------------------------------------------------------
(* jennifer fragments.  A *jen.Statement is a list of items; an item is a  *)
(* token or a group of statements.  Every fragment is a record of the same *)
(* shape: k the kind, s its text, n its number, a its items.               *)

Tok(k, s) == [k |-> k, s |-> s, n |-> 0, a |-> <<>>]
Grp(k, items) == [k |-> k, s |-> "", n |-> 0, a |-> items]
Tagged(k, s, n, items) == [k |-> k, s |-> s, n |-> n, a |-> items]
Stmt(items) == Grp("stmt", items)
Null == Stmt(<<>>)
Empty == Stmt(<<Tok("empty", "")>>)
Id(s) == Stmt(<<Tok("id", s)>>)
LitInt(n) == Stmt(<<[k |-> "lit", s |-> "", n |-> n, a |-> <<>>]>>)
LitStr(s) == Stmt(<<Tok("lit", s)>>)
Qual(pkg, name) == Stmt(<<[k |-> "qual", s |-> name, n |-> 0, a |-> <<Tok("pkg", pkg)>>]>>)
Line == Stmt(<<Tok("line", "")>>)
Comment(s, n) == Stmt(<<[k |-> "comment", s |-> s, n |-> n, a |-> <<>>]>>)
StAdd(st, x) == [st EXCEPT !.a = Append(@, x)]
StOp(st, op) == StAdd(st, Tok("op", op))
StGrp(st, k, items) == StAdd(st, Grp(k, items))

RuntimePkg == "github.com/raff/pygor/runtime"
goAny == Qual(RuntimePkg, "Any")
goList == Qual(RuntimePkg, "List")
goTuple == Qual(RuntimePkg, "Tuple")
goDict == Qual(RuntimePkg, "Dict")
goException == Qual(RuntimePkg, "PyException")
goContains == Qual(RuntimePkg, "Contains")

(* The fragments of a fragment, itself included. *)
RECURSIVE Parts(_)
Parts(f) == {f} \cup UNION {Parts(f.a[i]) : i \in DOMAIN f.a}

(* How many of the items, at any depth, are the fragment x. *)
RECURSIVE Occurrences(_, _), OccurrencesIn(_, _)
OccurrencesIn(fs, x) ==
    IF fs = <<>> THEN 0 ELSE Occurrences(Head(fs), x) + OccurrencesIn(Tail(fs), x)
Occurrences(f, x) == IF f = x THEN 1 ELSE OccurrencesIn(f.a, x)

-----------------------------------------------------------------------------
(* The Python AST (gpython/ast).  A node is a record: k the node type, s   *)
(* its identifier or text, n its number, a its child nodes, o its list of  *)
(* operators, l and c its line and column.                                 *)

Node(k, s, n, a, o) == [k |-> k, s |-> s, n |-> n, a |-> a, o |-> o, l |-> 1, c |-> 0]
At(node, l, c) == [node EXCEPT !.l = l, !.c = c]
Nil == Node("nil", "", 0, <<>>, <<>>)
Name(id) == Node("Name", id, 0, <<>>, <<>>)
Num(n) == Node("Num", "Int", n, <<>>, <<>>)
Str(s) == Node("Str", s, 0, <<>>, <<>>)
TupleOf(elts) == Node("Tuple", "", 0, elts, <<>>)
SetOf(elts) == Node("Set", "", 0, elts, <<>>)
CallOf(f, args) == Node("Call", "", 0, <<f>> \o args, <<>>)
Attribute(v, attr) == Node("Attribute", attr, 0, <<v>>, <<>>)
Arguments(pos, kwonly, vararg, kwarg) ==
    Node("arguments", "", 0,
         <<Node("args", "", 0, <<>>, pos), Node("kwonlyargs", "", 0, <<>>, kwonly),
           Node("vararg", "", 0, <<>>, vararg), Node("kwarg", "", 0, <<>>, kwarg)>>, <<>>)
Params(pos) == Arguments(pos, <<>>, <<>>, <<>>)
Lambda(args, body) == Node("Lambda", "", 0, <<args, body>>, <<>>)
Compare(left, ops, comparators) == Node("Compare", "", 0, <<left>> \o comparators, ops)
Slice(lower, upper, step) == Node("Slice", "", 0, <<lower, upper, step>>, <<>>)
Index(v) == Node("Index", "", 0, <<v>>, <<>>)
ExtSlice == Node("ExtSlice", "", 0, <<>>, <<>>)
Subscript(v, slice) == Node("Subscript", "", 0, <<v, slice>>, <<>>)
Comprehension(target, iter, ifs) == Node("comprehension", "", 0, <<target, iter>> \o ifs, <<>>)
ListComp(elt, gens) == Node("ListComp", "", 0, <<elt>> \o gens, <<>>)
DictComp(key, value, gens) == Node("DictComp", "", 0, <<key, value>> \o gens, <<>>)
GeneratorExp(elt, gens) == Node("GeneratorExp", "", 0, <<elt>> \o gens, <<>>)
UnaryOp(op, operand) == Node("UnaryOp", op, 0, <<operand>>, <<>>)

Tail2(s) == SubSeq(s, 3, Len(s))

(* The expression node types goExpr has no case for. *)
UnmappedKinds == {"Set", "SetComp", "Bytes", "Ellipsis", "Starred", "Await"}

-----------------------------------------------------------------------------
(* The expression translator.  A translation returns its fragment f, the   *)
(* names it declared in the scope it ran in (nm, by addName) and, when it  *)
(* panicked, the reason ab: a panic is never recovered, it ends the        *)
(* process.  imp is the import-alias map of the scope, a set of            *)
(* <<alias, module>> pairs.                                                *)

Ok(f, nm) == [f |-> f, ab |-> "", nm |-> nm]
Abort(why) == [f |-> Null, ab |-> why, nm |-> {}]
OkList(fs, nm) == [fs |-> fs, ab |-> "", nm |-> nm]

Lookup(imp, key) ==
    IF \E p \in imp : p[1] = key THEN (CHOOSE p \in imp : p[1] = key)[2] ELSE ""
Put(imp, key, val) == {p \in imp : p[1] # key} \cup {<<key, val>>}

rename(s) ==
    CASE s = "func" -> "func_"
      [] s = "str" -> "string"
      [] s = "float" -> "float64"
      [] s = "complex" -> "complex128"
      [] s = "dict" -> "Dict"
      [] s = "list" -> "List"
      [] s = "tuple" -> "Tuple"
      [] s = "Any" -> "Any_"
      [] s = "Dict" -> "Dict_"
      [] s = "List" -> "List_"
      [] s = "Tuple" -> "Tuple_"
      [] OTHER -> s

goId(id) ==
    CASE id = "sys.stdin" -> Qual("os", "Stdin")
      [] id = "sys.stdout" -> Qual("os", "Stdout")
      [] id = "sys.stderr" -> Qual("os", "Stderr")
      [] OTHER -> Id(rename(id))

(* The diagnostic of a construct with no rule: the label, the dynamic type *)
(* of the value and, for an expression node, its position.                 *)
UnknownMsg(typ, tag, isExpr, l, c) ==
    Tagged("lit", "UNKNOWN", 0,
           <<Tok("label", typ), Tok("type", tag)>>
           \o (IF isExpr THEN <<Tagged("line", "", l, <<>>), Tagged("col", "", c, <<>>)>>
                ELSE <<>>))

unknownLenient(typ, tag, isExpr, l, c) == Ok(Stmt(<<UnknownMsg(typ, tag, isExpr, l, c)>>), {})

unknown(typ, tag, isExpr, l, c) ==
    IF panicUnknown THEN Abort("panic: unknown")
    ELSE Ok(Stmt(<<UnknownMsg(typ, tag, isExpr, l, c)>>), {})

goCmpOp(op) ==
    CASE op = "Eq" -> Ok(Stmt(<<Tok("op", "==")>>), {})
      [] op = "NotEq" -> Ok(Stmt(<<Tok("op", "!=")>>), {})
      [] op = "Lt" -> Ok(Stmt(<<Tok("op", "<")>>), {})
      [] op = "LtE" -> Ok(Stmt(<<Tok("op", "<=")>>), {})
      [] op = "Gt" -> Ok(Stmt(<<Tok("op", ">")>>), {})
      [] op = "GtE" -> Ok(Stmt(<<Tok("op", ">=")>>), {})
      [] op = "Is" -> Ok(Stmt(<<Tok("op", "==")>>), {})
      [] op = "IsNot" -> Ok(Stmt(<<Tok("op", "!=")>>), {})
      [] op = "In" -> Ok(Stmt(<<Tok("op", "in")>>), {})
      [] op = "NotIn" -> Ok(Stmt(<<Tok("op", "not in")>>), {})
      [] OTHER -> unknown("CMPOP", op, FALSE, 0, 0)

goUnary(op) ==
    CASE op = "Not" -> Ok(Stmt(<<Tok("op", "!")>>), {})
      [] op = "UAdd" -> Ok(Stmt(<<Tok("op", "+")>>), {})
      [] op = "USub" -> Ok(Stmt(<<Tok("op", "-")>>), {})
      [] OTHER -> unknown("UNARY", op, FALSE, 0, 0)

(* A value passed on to the rest of a translation. *)
Let(x, In(_)) == In(x)

RECURSIVE goExpr(_, _), goExprs(_, _), goCompare(_, _, _, _, _, _)
RECURSIVE goFor(_, _, _), gomprehension(_, _), gomprehensions(_, _)

(* Translations in evaluation order; the first panic ends them. *)
goExprs(es, imp) ==
    IF es = <<>> THEN OkList(<<>>, {})
    ELSE Let(goExpr(Head(es), imp), LAMBDA h :
         IF h.ab # "" THEN [fs |-> <<>>, ab |-> h.ab, nm |-> h.nm]
         ELSE Let(goExprs(Tail(es), imp), LAMBDA t :
              [fs |-> <<h.f>> \o t.fs, ab |-> t.ab, nm |-> h.nm \cup t.nm]))

goExprList(es, imp) ==
    Let(goExprs(es, imp), LAMBDA r :
        IF r.ab # "" THEN Abort(r.ab) ELSE Ok(Stmt(<<Grp("list", r.fs)>>), r.nm))

goExprOrList(e, imp) ==
    IF e.k = "Tuple" THEN goExprList(e.a, imp) ELSE goExpr(e, imp)

goInitialized(otype, values, imp) ==
    Let(goExprs(values, imp), LAMBDA r :
        IF r.ab # "" THEN Abort(r.ab)
        ELSE Ok(Stmt(<<Grp("parens", <<StGrp(otype, "values", r.fs)>>)>>), r.nm))

StepIgnored(value) == FALSE

(* if sl.Step != nil *)
StepGiven(value) == value.a[3] # Nil

(* The bounds of a slice that are given, translated in order. *)
Bounds(value) == SelectSeq(<<value.a[1], value.a[2]>>, LAMBDA b : b # Nil)

goSlice(name, value, imp) ==
    Let(goExprs(<<name>> \o (IF value.k = "Slice" THEN Bounds(value)
                             ELSE IF value.k = "Index" THEN <<value.a[1]>> ELSE <<>>), imp),
        LAMBDA r :
        IF r.ab # "" THEN Abort(r.ab)
        ELSE CASE value.k = "Slice" ->
                    IF StepGiven(value) THEN Abort("panic: step index not implemented")
                    ELSE LET start == IF value.a[1] # Nil THEN r.fs[2] ELSE Empty
                             end == IF value.a[2] # Nil THEN r.fs[Len(r.fs)] ELSE Empty
                         IN Ok(StGrp(r.fs[1], "index", <<start, end>>), r.nm)
               [] value.k = "Index" -> Ok(StGrp(r.fs[1], "index", <<r.fs[2]>>), r.nm)
               [] value.k = "ExtSlice" -> Abort("panic: ExtSlice not implemented")
               [] OTHER -> Ok(r.fs[1], r.nm))

(* The parameter list of a function or lambda; every parameter is declared *)
(* in the scope the call runs in.  recv is the receiver taken off the      *)
(* list, "" when none.  The parameters have no annotation; a keyword-only  *)
(* parameter has no default, so that the translation of its default is the *)
(* one of a nil expression; a **kwargs parameter reads the annotation of   *)
(* the *args parameter, which is a nil pointer when there is none.         *)
ParamFrags(names) == [i \in DOMAIN names |-> StAdd(goId(names[i]), goAny)]
KwParamFrags(names) ==
    [i \in DOMAIN names |-> StAdd(StAdd(goId(names[i]), goAny), Tok("comment", "default"))]
VarParamFrags(names) ==
    [i \in DOMAIN names |-> StAdd(StAdd(goId(names[i]), Tok("comment", "...")), goAny)]
SeqRange(q) == {q[i] : i \in DOMAIN q}

goFunctionArguments(args, skipReceiver) ==
    IF args = Nil THEN [f |-> Null, ab |-> "", nm |-> {}, recv |-> ""]
    ELSE LET pos == args.a[1].o
             skip == skipReceiver /\ Len(pos) > 0
             recv == IF skip THEN pos[1] ELSE ""
             aargs == IF skip THEN Tail(pos) ELSE pos
             kwonly == args.a[2].o
             vararg == args.a[3].o
             kwarg == args.a[4].o
             params == ParamFrags(aargs) \o KwParamFrags(kwonly)
                       \o VarParamFrags(vararg) \o VarParamFrags(kwarg)
             kwdefault == unknown("EXPR", "nil", FALSE, 0, 0)
         IN IF kwonly # <<>> /\ kwdefault.ab # ""
            THEN [f |-> Null, ab |-> kwdefault.ab, nm |-> {}, recv |-> recv]
            ELSE IF kwarg # <<>> /\ vararg = <<>>
            THEN [f |-> Null, ab |-> "panic: nil pointer dereference", nm |-> {}, recv |-> recv]
            ELSE [f |-> Stmt(<<Grp("list", params)>>), ab |-> "",
                  nm |-> SeqRange(aargs) \cup SeqRange(kwonly)
                         \cup SeqRange(vararg) \cup SeqRange(kwarg),
                  recv |-> recv]

(* A call of a callee the rewrite table of goCall does not list, with      *)
(* positional arguments only.                                              *)
goCall(call, imp) ==
    Let(goExprs(call.a, imp), LAMBDA r :
        LET fn == call.a[1]
            cfunc == IF fn.k = "Name" /\ fn.s = "print" THEN Qual("fmt", "Println")
                     ELSE IF fn.k = "Name" /\ fn.s = "open" THEN Qual("os", "Open")
                     ELSE IF fn.k = "Name" /\ fn.s = "type" THEN Qual("reflect", "Type")
                     ELSE r.fs[1]
        IN IF r.ab # "" THEN Abort(r.ab)
           ELSE Ok(StGrp(cfunc, "call", Tail(r.fs)), r.nm))

(* case *ast.Compare: stmt is the statement so far, left the left operand  *)
(* of pair i.                                                              *)
CmpPairByTable(stmt, op, left, right, opf) ==
    StAdd(StAdd(StAdd(stmt, left), opf), right)

CmpPair(stmt, op, left, right, opf) ==
    IF op = "In" THEN StAdd(stmt, StGrp(goContains, "call", <<right, left>>))
    ELSE IF op = "NotIn"
    THEN StAdd(StOp(stmt, "!"), StGrp(goContains, "call", <<right, left>>))
    ELSE StAdd(StAdd(StAdd(stmt, left), opf), right)

(* The result of a translation with tr, the operands s.goExpr was called   *)
(* on by the case itself, in the order of the calls.                       *)
Traced(r, tr) == [f |-> r.f, ab |-> r.ab, nm |-> r.nm, tr |-> tr]

goCompare(v, i, stmt, left, nm, imp) ==
    IF i > Len(v.o) THEN Traced(Ok(stmt, nm), <<>>)
    ELSE Let(goExpr(v.a[i + 1], imp), LAMBDA right :
         Let(IF v.o[i] \in {"In", "NotIn"} THEN Ok(Null, {}) ELSE goCmpOp(v.o[i]), LAMBDA opf :
             IF right.ab # "" THEN right
             ELSE IF opf.ab # "" THEN opf
             ELSE Let(goCompare(v, i + 1,
                                CmpPair(IF i > 1 THEN StOp(stmt, "&&") ELSE stmt,
                                        v.o[i], left, right.f, opf.f),
                                right.f, nm \cup right.nm, imp), LAMBDA rest :
                  IF rest.ab # "" THEN rest
                  ELSE Traced(rest, <<v.a[i + 1]>> \o rest.tr))))

RangeForDown(t, start, stop, step) ==
    Stmt(<<Grp("for", <<StAdd(StOp(t, ":="), stop),
                        StAdd(StOp(t, "<"), start),
                        StAdd(StOp(t, "+="), step)>>)>>)

(* goFor: the header of a loop over iter, for the for statement and for    *)
(* the clause of a comprehension.                                          *)
RangeFor(t, start, stop, step) ==
    Stmt(<<Grp("for", <<StAdd(StOp(t, ":="), start),
                        StAdd(StOp(t, "<"), stop),
                        StAdd(StOp(t, "+="), step)>>)>>)

goFor(target, iter, imp) ==
    IF iter.k = "Call" /\ iter.a[1].k = "Name" /\ iter.a[1].s = "range"
    THEN IF Len(iter.a) - 1 < 1 \/ Len(iter.a) - 1 > 3
         THEN Abort("panic: range expects 1 to 3 arguments")
         ELSE Let(goExprs(Tail(iter.a) \o <<target>>, imp), LAMBDA r :
              LET n == Len(iter.a) - 1
                  start == IF n = 1 THEN LitInt(0) ELSE r.fs[1]
                  stop == IF n = 1 THEN r.fs[1] ELSE r.fs[2]
                  step == IF n > 2 THEN r.fs[3] ELSE LitInt(1)
              IN IF r.ab # "" THEN Abort(r.ab)
                 ELSE Ok(RangeFor(r.fs[n + 1], start, stop, step), r.nm))
    ELSE Let(IF iter.k = "Call" THEN goExprOrList(target, imp) ELSE goExpr(target, imp),
             LAMBDA t :
             IF t.ab # "" THEN t
             ELSE Let(goExpr(iter, imp), LAMBDA it :
                  IF it.ab # "" THEN it
                  ELSE Ok(Stmt(<<Grp("for", <<StAdd(StAdd(StOp(t.f, ":="), Tok("range", "")),
                                                    it.f)>>)>>),
                          t.nm \cup it.nm)))

(* gomprehension: the loop of one clause and, when the clause has filters, *)
(* the if on their conjunction; hasIf tells which of the two the body of   *)
(* the clause is added to.                                                 *)
AndAll(fs) ==
    LET RECURSIVE Go(_, _)
        Go(st, i) == IF i > Len(fs) THEN st ELSE Go(StAdd(StOp(st, "&&"), fs[i]), i + 1)
    IN Go(fs[1], 2)

NoClause(why) == [iter |-> Null, cond |-> Null, hasIf |-> FALSE, ab |-> why, nm |-> {}]

gomprehension(c, imp) ==
    Let(goFor(c.a[1], c.a[2], imp), LAMBDA iter :
        IF iter.ab # "" THEN NoClause(iter.ab)
        ELSE Let(goExprs(Tail2(c.a), imp), LAMBDA ifs :
             IF ifs.ab # "" THEN NoClause(ifs.ab)
             ELSE IF Len(ifs.fs) > 0
             THEN [iter |-> iter.f, cond |-> Stmt(<<Grp("if", <<AndAll(ifs.fs)>>)>>),
                   hasIf |-> TRUE, ab |-> "", nm |-> iter.nm \cup ifs.nm]
             ELSE [iter |-> iter.f, cond |-> iter.f, hasIf |-> FALSE, ab |-> "",
                   nm |-> iter.nm]))

(* The clauses of a comprehension, translated in order. *)
gomprehensions(gens, imp) ==
    IF gens = <<>> THEN [gs |-> <<>>, ab |-> "", nm |-> {}]
    ELSE Let(gomprehension(Head(gens), imp), LAMBDA g :
         IF g.ab # "" THEN [gs |-> <<>>, ab |-> g.ab, nm |-> {}]
         ELSE Let(gomprehensions(Tail(gens), imp), LAMBDA rest :
              [gs |-> <<g>> \o rest.gs, ab |-> rest.ab, nm |-> g.nm \cup rest.nm]))

(* A clause with the block of its body added: to the if when it has one    *)
(* (the if is the block of the loop), to the loop otherwise.               *)
WithBody(g, block) ==
    IF g.hasIf THEN StGrp(g.iter, "block", <<StAdd(g.cond, block)>>)
    ELSE StAdd(g.iter, block)

(* The nested loops of the clauses gs, the innermost holding payload. *)
RECURSIVE Nest(_, _)
Nest(gs, payload) ==
    IF Len(gs) = 1 THEN WithBody(gs[1], Grp("block", <<payload>>))
    ELSE WithBody(gs[1], Grp("block", <<Nest(Tail(gs), payload)>>))

(* The closures of the three comprehension forms around the loops outer. *)
ListCompFrag(outer) ==
    Stmt(<<Tok("func", ""), Grp("params", <<>>), Grp("params", <<StAdd(Id("lc"), goList)>>),
           Grp("block", <<outer, Stmt(<<Grp("return", <<Id("lc")>>)>>)>>), Grp("call", <<>>)>>)
DictCompFrag(outer) ==
    Stmt(<<Tok("func", ""), Grp("params", <<>>), Grp("params", <<StAdd(Id("mm"), goDict)>>),
           Grp("block", <<StGrp(StAdd(StOp(Id("mm"), "="), goDict), "values", <<>>),
                          outer, Stmt(<<Grp("return", <<>>)>>)>>), Grp("call", <<>>)>>)
GeneratorExpFragNoClose(outer) ==
    Stmt(<<Tok("func", ""), Grp("params", <<>>),
           Grp("params", <<StAdd(StAdd(Id("c"), Tok("chan", "")), goAny)>>),
           Grp("block", <<StGrp(StOp(Id("c"), "="), "make", <<StAdd(Stmt(<<Tok("chan", "")>>), goAny)>>),
                          Stmt(<<Tok("go", ""), Tok("func", ""), Grp("params", <<>>),
                                 Grp("block", <<outer>>),
                                 Grp("call", <<>>)>>),
                          Stmt(<<Grp("return", <<>>)>>)>>), Grp("call", <<>>)>>)

GeneratorExpFrag(outer) ==
    Stmt(<<Tok("func", ""), Grp("params", <<>>),
           Grp("params", <<StAdd(StAdd(Id("c"), Tok("chan", "")), goAny)>>),
           Grp("block", <<StGrp(StOp(Id("c"), "="), "make", <<StAdd(Stmt(<<Tok("chan", "")>>), goAny)>>),
                          Stmt(<<Tok("go", ""), Tok("func", ""), Grp("params", <<>>),
                                 Grp("block", <<outer, Stmt(<<Grp("close", <<Id("c")>>)>>)>>),
                                 Grp("call", <<>>)>>),
                          Stmt(<<Grp("return", <<>>)>>)>>), Grp("call", <<>>)>>)

(* What a comprehension adds to the body of its innermost clause. *)
Payload(k, fs) ==
    CASE k = "ListComp" ->
            Stmt(<<Tok("id", "lc"), Tok("op", "="), Grp("append", <<Id("lc"), fs[1]>>)>>)
      [] k = "DictComp" ->
            Stmt(<<Tok("id", "mm"), Grp("index", <<fs[1]>>), Tok("op", "="), fs[2]>>)
      [] OTHER -> Stmt(<<Tok("id", "c"), Tok("op", "<-"), fs[1]>>)

Closure(k, outer) ==
    CASE k = "ListComp" -> ListCompFrag(outer)
      [] k = "DictComp" -> DictCompFrag(outer)
      [] OTHER -> GeneratorExpFrag(outer)

(* case *ast.ListComp, *ast.DictComp, *ast.GeneratorExp: elts is the       *)
(* element, or the key and the value.                                      *)
goComprehension(k, elts, gens, imp) ==
    Let(gomprehensions(gens, imp), LAMBDA g :
        IF g.ab # "" THEN Abort(g.ab)
        ELSE Let(goExprs(elts, imp), LAMBDA r :
             IF r.ab # "" THEN Abort(r.ab)
             ELSE Ok(Closure(k, Nest(g.gs, Payload(k, r.fs))), g.nm \cup r.nm)))

goExpr(e, imp) ==
    CASE e.k = "Tuple" -> goInitialized(goTuple, e.a, imp)
      [] e.k = "List" -> goInitialized(goList, e.a, imp)
      [] e.k = "Num" ->
            IF e.s \in {"Int", "Float", "Complex"} THEN Ok(LitInt(e.n), {})
            ELSE Abort("panic: invalid number")
      [] e.k = "Str" -> Ok(LitStr(e.s), {})
      [] e.k = "Name" -> Ok(goId(e.s), {})
      [] e.k = "UnaryOp" ->
            Let(goUnary(e.s), LAMBDA op :
                IF op.ab # "" THEN op
                ELSE Let(goExpr(e.a[1], imp), LAMBDA x :
                     IF x.ab # "" THEN x
                     ELSE IF e.s = "Invert"
                     THEN Ok(StGrp(op.f, "parens", <<StAdd(StOp(x.f, "+"), LitInt(1).a[1])>>), x.nm)
                     ELSE Ok(StAdd(op.f, x.f), x.nm)))
      [] e.k = "Attribute" ->
            IF e.a[1].k = "Name" /\ Lookup(imp, e.a[1].s) # ""
            THEN Ok(Qual(Lookup(imp, e.a[1].s), e.s), {})
            ELSE Let(goExpr(e.a[1], imp), LAMBDA v :
                 IF v.ab # "" THEN v ELSE Ok(StAdd(v.f, Tok("dot", rename(e.s))), v.nm))
      [] e.k = "Subscript" -> goSlice(e.a[1], e.a[2], imp)
      [] e.k = "Call" -> goCall(e, imp)
      [] e.k = "Lambda" ->
            Let(goFunctionArguments(e.a[1], FALSE), LAMBDA args :
                IF args.ab # "" THEN Abort(args.ab)
                ELSE Let(goExpr(e.a[2], imp), LAMBDA body :
                     IF body.ab # "" THEN body
                     ELSE Ok(Stmt(<<Tok("func", ""), Grp("params", <<args.f>>),
                                    Grp("block", <<body.f>>), Grp("call", <<>>)>>),
                             args.nm \cup body.nm)))
      [] e.k = "Compare" ->
            Let(goExpr(e.a[1], imp), LAMBDA left :
                IF left.ab # "" THEN left
                ELSE Let(goCompare(e, 1, Null, left.f, left.nm, imp), LAMBDA r :
                     IF r.ab # "" THEN r ELSE Traced(r, <<e.a[1]>> \o r.tr)))
      [] e.k = "ListComp" -> goComprehension(e.k, <<e.a[1]>>, Tail(e.a), imp)
      [] e.k = "DictComp" -> goComprehension(e.k, <<e.a[1], e.a[2]>>, Tail2(e.a), imp)
      [] e.k = "GeneratorExp" -> goComprehension(e.k, <<e.a[1]>>, Tail(e.a), imp)
      [] e.k = "nil" -> unknown("EXPR", "nil", FALSE, 0, 0)
      [] OTHER -> unknown("EXPR", e.k, TRUE, e.l, e.c)

-----------------------------------------------------------------------------
(* The Scope chain.  A Scope has the fields of the Go struct; fr holds the *)
(* locals of the handler that pushed it and of the parseBody call running  *)
(* in it.  The chain s.prev ... is the sequence scopes, the root first.    *)
(* The alias map is shared by reference: a Scope holds the address of its  *)
(* map, maps holds the maps.                                               *)

Frame(kind, cls, line, st) ==
    [kind |-> kind, cls |-> cls, line |-> line, st |-> st, i |-> 0, first |-> "",
     phase |-> "body", parts |-> <<>>, names |-> <<>>]

FreshMap(maps) == CHOOSE a \in 1..(Cardinality(DOMAIN maps) + 1) : a \notin DOMAIN maps

(* NewScope: a Scope with no name, on the map imp[1] when one is given and *)
(* on a new empty map otherwise.                                           *)
NewScope(maps, imp) ==
    LET addr == IF Len(imp) > 0 THEN imp[1] ELSE FreshMap(maps) IN
    [sc |-> [level |-> 0, vars |-> {}, imports |-> addr, parsed |-> Null,
             body |-> <<>>, methods |-> <<>>, fr |-> Frame("module", "", 0, Null)],
     maps |-> IF Len(imp) > 0 THEN maps
              ELSE [a \in DOMAIN maps \cup {addr} |-> IF a = addr THEN {} ELSE maps[a]]]

Depth(t) == Len(t.scopes)
Cur(t) == t.scopes[Len(t.scopes)]
Imports(t, sc) == t.maps[sc.imports]

PushOwnMap(t, fr) ==
    LET s == Cur(t)
        n == NewScope(t.maps, <<>>)
        child == [n.sc EXCEPT !.level = s.level + 1, !.fr = fr]
    IN [t EXCEPT !.scopes = Append(@, child), !.maps = n.maps]

(* Push: the child is the new end of the chain. *)
Push(t, fr) ==
    LET s == Cur(t)
        n == NewScope(t.maps, <<s.imports>>)
        child == [n.sc EXCEPT !.level = s.level + 1, !.fr = fr]
    IN [t EXCEPT !.scopes = Append(@, child), !.maps = n.maps]

PopKeepingNames(t) ==
    LET d == Len(t.scopes)
        s == t.scopes[d]
        prev == t.scopes[d - 1]
        prev1 == [prev EXCEPT !.methods = @ \o s.methods, !.vars = @ \cup s.vars]
        prev2 == IF d - 1 = 1 /\ prev1.methods # <<>>
                 THEN [prev1 EXCEPT !.body = @ \o prev1.methods, !.methods = <<>>]
                 ELSE prev1
    IN [t EXCEPT !.scopes = Append(SubSeq(t.scopes, 1, d - 2), prev2)]

PopDroppingMethods(t) ==
    LET d == Len(t.scopes)
        prev == t.scopes[d - 1]
        prev2 == IF d - 1 = 1 /\ prev.methods # <<>>
                 THEN [prev EXCEPT !.body = @ \o prev.methods, !.methods = <<>>]
                 ELSE prev
    IN [t EXCEPT !.scopes = Append(SubSeq(t.scopes, 1, d - 2), prev2)]

(* Pop: the methods of the popped scope go to its parent, and from a       *)
(* parent that is the root into the root's body.                           *)
Pop(t) ==
    LET d == Len(t.scopes)
        s == t.scopes[d]
        prev == t.scopes[d - 1]
        prev1 == [prev EXCEPT !.methods = @ \o s.methods]
        prev2 == IF d - 1 = 1 /\ prev1.methods # <<>>
                 THEN [prev1 EXCEPT !.body = @ \o prev1.methods, !.methods = <<>>]
                 ELSE prev1
    IN [t EXCEPT !.scopes = Append(SubSeq(t.scopes, 1, d - 2), prev2)]

Add(sc, stmt) == [sc EXCEPT !.parsed = StAdd(@, stmt), !.body = Append(@, stmt)]

(* Render: the statements parsed since the last Render; the group starts   *)
(* again.                                                                  *)
Render(sc) == [parsed |-> sc.parsed, sc |-> [sc EXCEPT !.parsed = Null]]

addName(sc, id) == [sc EXCEPT !.vars = @ \cup {id}]

InCurrent(scopes, nn) == nn \in scopes[Len(scopes)].vars

InChain(scopes, nn) == \E k \in DOMAIN scopes : nn \in scopes[k].vars

(* newNames over the chain that ends in the current scope: the chain after *)
(* the call and whether a target was new.                                  *)
RECURSIVE newNames(_, _)
newNames(scopes, lexpr) ==
    IF lexpr = <<>> THEN [ret |-> FALSE, scopes |-> scopes]
    ELSE LET x == Head(lexpr)
             found == InChain(scopes, x.s)
             scopes1 == IF x.k = "Name" /\ ~found
                        THEN [scopes EXCEPT ![Len(scopes)] = addName(@, x.s)]
                        ELSE scopes
             rest == newNames(scopes1, Tail(lexpr))
         IN [ret |-> (x.k = "Name" /\ ~found) \/ rest.ret, scopes |-> rest.scopes]

-----------------------------------------------------------------------------
(* The translator process t: the chain of scopes, the alias maps, the      *)
(* status ("run", "printed" once main has printed the module, or the       *)
(* reason of the panic or log.Fatal that ended the process) and the        *)
(* fragments main printed for the module.                                  *)

Running(t) == t.status = "run"
Ended(t) == t.status \notin {"run", "printed"}
SetScope(t, k, sc) == [t EXCEPT !.scopes[k] = sc]
SetCur(t, sc) == SetScope(t, Len(t.scopes), sc)
Fail(t, why) == [t EXCEPT !.status = why]

(* The discard pass of Render on the file the scopes share: the group of   *)
(* the file is replaced by the statements rendered, and the packages of    *)
(* their qualified names are registered as imports of the file.            *)
Quals(f) == {q.s : q \in {x \in Parts(f) : x.k = "pkg"}}
NewFile == [group |-> Null, imports |-> {}]
Discard(t, parsed) ==
    [t EXCEPT !.file = [group |-> parsed, imports |-> @.imports \cup Quals(parsed)]]
Declare(t, k, nm) == [t EXCEPT !.scopes[k].vars = @ \cup nm]

(* The start of an iteration of parseBody's loop on the statement at line. *)
Pre(t, line, kind) ==
    Let(Cur(t), LAMBDA s :
    Let(IF s.fr.i > 0 THEN Add(s, Line) ELSE s, LAMBDA s1 :
    Let(IF lineno THEN Add(s1, Comment("// line", line)) ELSE s1, LAMBDA s2 :
        SetCur(t, [s2 EXCEPT !.fr.i = @ + 1,
                             !.fr.first = IF s.fr.i = 0 THEN kind ELSE @]))))

(* case *ast.ExprStmt, and the __doc__ string handled before the switch. *)
DoExprStmt(t, e, line) ==
    Let(Pre(t, line, "ExprStmt"), LAMBDA t1 :
        IF e.k = "Str" THEN SetCur(t1, Add(Cur(t1), StAdd(Comment(e.s, 0), Tok("line", ""))))
        ELSE Let(goExpr(e, Imports(t1, Cur(t1))), LAMBDA r :
             IF r.ab # "" THEN Fail(t1, r.ab)
             ELSE Let(Declare(t1, Depth(t1), r.nm), LAMBDA t2 : SetCur(t2, Add(Cur(t2), r.f)))))

goAssign(targets, value, imp) ==
    Let(IF Len(targets) = 1 THEN goExprOrList(targets[1], imp) ELSE goExprList(targets, imp),
        LAMBDA tg :
        IF tg.ab # "" THEN [target |-> Null, value |-> Null, ab |-> tg.ab, nm |-> {}]
        ELSE Let(IF Len(targets) = 1 THEN goExprOrList(value, imp) ELSE goExpr(value, imp),
                 LAMBDA vl :
                 IF vl.ab # "" THEN [target |-> Null, value |-> Null, ab |-> vl.ab, nm |-> {}]
                 ELSE [target |-> tg.f, value |-> vl.f, ab |-> "", nm |-> tg.nm \cup vl.nm]))

Assignment(ga) == StAdd(StOp(ga.target, "="), ga.value)
Var(stmt) == Stmt(<<Tok("var", ""), stmt>>)
VarOf(cls, stmt) == Stmt(<<Tok("var", ""), Tok("comment", cls), stmt>>)

(* case *ast.Assign *)
DoAssign(t, targets, value, line) ==
    Let(Pre(t, line, "Assign"), LAMBDA t1 :
    Let(goAssign(targets, value, Imports(t1, Cur(t1))), LAMBDA ga :
        IF ga.ab # "" THEN Fail(t1, ga.ab)
        ELSE Let(Declare(t1, Depth(t1), ga.nm), LAMBDA t2 :
             IF Cur(t2).fr.cls # ""
             THEN SetCur(t2, Add(Cur(t2), VarOf(Cur(t2).fr.cls, Assignment(ga))))
             ELSE Let(newNames(t2.scopes, targets), LAMBDA nn :
                  Let([t2 EXCEPT !.scopes = nn.scopes], LAMBDA t3 :
                      SetCur(t3, Add(Cur(t3), IF nn.ret THEN Var(Assignment(ga))
                                              ELSE Assignment(ga))))))))

(* case *ast.Import, of one name *)
DoImport(t, name, asname, line) ==
    Let(Pre(t, line, "Import"), LAMBDA t1 :
        LET key == IF asname # "" THEN asname ELSE name
            stmt == Stmt(<<Tok("comment", "import"), Tok("alias", asname), Tok("module", name)>>)
        IN [SetCur(t1, Add(Cur(t1), stmt)) EXCEPT !.maps[Cur(t1).imports] = Put(@, key, name)])

(* case *ast.Pass *)
DoPass(t, line) ==
    Let(Pre(t, line, "Pass"), LAMBDA t1 : SetCur(t1, Add(Cur(t1), Comment("pass", 0))))

(* case *ast.Delete: one target.  A subscript by an index becomes a delete  *)
(* call, a subscript by anything else is a log.Panicf, any other target    *)
(* goes to unknown and its diagnostic becomes a comment.                   *)
DeleteTarget(t, x) ==
    IF x.k = "Subscript"
    THEN IF x.a[2].k = "Index"
         THEN Let(goExprs(<<x.a[1], x.a[2].a[1]>>, Imports(t, Cur(t))), LAMBDA r :
              IF r.ab # "" THEN Fail(t, r.ab)
              ELSE Let(Declare(t, Depth(t), r.nm), LAMBDA t1 :
                   SetCur(t1, Add(Cur(t1), Stmt(<<Grp("delete", r.fs)>>)))))
         ELSE Fail(t, "panic: unexpected DELETE")
    ELSE Let(unknown("DELETE", x.k, TRUE, x.l, x.c), LAMBDA r :
         IF r.ab # "" THEN Fail(t, r.ab)
         ELSE SetCur(t, Add(Cur(t), Stmt(<<Tok("comment", "GoString"), r.f>>))))

RECURSIVE DeleteTargets(_, _)
DeleteTargets(t, targets) ==
    IF targets = <<>> \/ ~Running(t) THEN t
    ELSE DeleteTargets(DeleteTarget(t, Head(targets)), Tail(targets))

DoDelete(t, targets, line) == DeleteTargets(Pre(t, line, "Delete"), targets)

(* case *ast.Assert: the message of the call is the translated message,    *)
(* and the literal "" when the statement has none.                         *)
AssertCall(test, msg) == Stmt(<<Tok("id", "Assert"), Grp("call", <<test, msg>>)>>)

DoAssertion(t, test, msg, line) ==
    Let(Pre(t, line, "Assert"), LAMBDA t1 :
    Let(goExprs(IF msg # Nil THEN <<test, msg>> ELSE <<test>>, Imports(t1, Cur(t1))), LAMBDA r :
        IF r.ab # "" THEN Fail(t1, r.ab)
        ELSE Let(Declare(t1, Depth(t1), r.nm), LAMBDA t2 :
             SetCur(t2, Add(Cur(t2), AssertCall(r.fs[1], IF msg # Nil THEN r.fs[2]
                                                         ELSE LitStr("")))))))

(* the default case: a statement type parseBody has no case for *)
DoUnknownStmt(t, kind, line) ==
    Let(Pre(t, line, kind), LAMBDA t1 :
    Let(unknown("STMT", kind, FALSE, 0, 0), LAMBDA r :
        IF r.ab # "" THEN Fail(t1, r.ab)
        ELSE SetCur(t1, Add(Cur(t1), Stmt(<<Tok("comment", "GoString"), r.f>>)))))

-----------------------------------------------------------------------------
(* The blocks.  Entering a block is its handler up to the parseBody call   *)
(* on its body, leaving it is the rest of the handler.  The names of the   *)
(* classes and functions of a module are told apart by the line of their   *)
(* definition.                                                             *)

ClassName(line) == <<"C1", "C2", "C3", "C4", "C5", "C6", "C7", "C8", "C9">>[line]
FuncName(line) == <<"f1", "f2", "f3", "f4", "f5", "f6", "f7", "f8", "f9">>[line]

Block(st, parsed) == StGrp(st, "block", <<parsed>>)

(* case *ast.FunctionDef up to the parseBody call on the body; cls is the  *)
(* classname the running parseBody was called with.                        *)
FuncHead(level, name, recv, cls) ==
    LET receiver == Grp("params", <<StAdd(StOp(goId(recv), "*"), Tok("id", cls))>>) IN
    IF recv # ""
    THEN IF name = "__str__" THEN Stmt(<<Tok("func", ""), receiver, Tok("id", "String")>>)
         ELSE Stmt(<<Tok("func", ""), receiver, goId(name)>>)
    ELSE IF level < 1 THEN Stmt(<<Tok("func", ""), goId(name)>>)
    ELSE StAdd(StOp(goId(name), ":="), Tok("func", ""))

FuncHeader(t, name, args, line, cls, kind) ==
    Let(Push(t, Frame(kind, "", line, Null)), LAMBDA t1 :
    Let(goFunctionArguments(args, cls # ""), LAMBDA fa :
        IF fa.ab # "" THEN Fail(t1, fa.ab)
        ELSE Let(StGrp(FuncHead(Cur(t).level, name, fa.recv, cls), "params", <<fa.f>>),
                 LAMBDA stmt :
                 SetCur(Declare(t1, Depth(t1), fa.nm),
                        [Cur(t1) EXCEPT !.vars = @ \cup fa.nm,
                                        !.fr.st = IF fa.recv # "" /\ name = "__str__"
                                                  THEN StGrp(stmt, "params", <<Id("string")>>)
                                                  ELSE stmt]))))

EnterFunctionDef(t, name, args, line) ==
    Let(Pre(t, line, "FunctionDef"), LAMBDA t1 :
        FuncHeader(t1, name, args, line, Cur(t1).fr.cls, "func"))

(* The rest of case *ast.FunctionDef: the body is rendered, the scope      *)
(* popped, the function added to the scope of the definition.              *)
ExitFunctionDef(t) ==
    Let(Render(Cur(t)), LAMBDA r :
    Let(Pop(SetCur(Discard(t, r.parsed), r.sc)), LAMBDA t1 :
        SetCur(t1, Add(Cur(t1), StAdd(Block(Cur(t).fr.st, r.parsed), Tok("line", ""))))))

(* case *ast.ClassDef: the scope of the class is pushed, then the closure  *)
(* of StructFunc visits the statements of the class.                       *)
EnterClassDef(t, name, line) ==
    Push(Pre(t, line, "ClassDef"), Frame("class", name, line, Null))

Member(t, part) ==
    SetCur(t, [Cur(t) EXCEPT !.fr.i = @ + 1, !.fr.parts = @ \o part])

ClassPass(t) == Member(t, <<>>)
ClassDoc(t, str) == Member(t, <<Comment(str, 0)>>)
ClassExprAsUnknown(t) == Member(t, <<Stmt(<<UnknownMsg("STMT", "ExprStmt", FALSE, 0, 0)>>)>>)

ClassExpr(t) == Fail(t, "fatal: unexpected expression in class definition")
ClassOther(t) == Fail(t, "fatal: unexpected statement in class definition")

(* A class variable: the assignment is translated in the scope of the      *)
(* class statement, s, not in the scope of the class.                      *)
ClassAssign(t, targets, value) ==
    Let(goAssign(targets, value, Imports(t, t.scopes[Depth(t) - 1])), LAMBDA ga :
        IF ga.ab # "" THEN Fail(t, ga.ab)
        ELSE Member(Declare(t, Depth(t) - 1, ga.nm),
                    <<StAdd(StAdd(ga.target, goAny), Tagged("comment", "=", 0, <<ga.value>>))>>))

(* A method: ss.parseBody(classname, {pv}) starts a parseBody call in the  *)
(* scope of the class, which runs case *ast.FunctionDef.                   *)
EnterMethod(t, name, args, line) ==
    Let(IF lineno THEN Add(Cur(t), Comment("// line", line)) ELSE Cur(t), LAMBDA ss1 :
        FuncHeader(SetCur(t, [ss1 EXCEPT !.fr.i = @ + 1, !.fr.names = Append(@, name)]),
                   name, args, line, Cur(t).fr.cls, "method"))

(* The method's FunctionDef case ends, then the parseBody call in the      *)
(* scope of the class returns its Render, which is appended to s.methods.  *)
ExitMethodUnrendered(t) ==
    Let(ExitFunctionDef(t), LAMBDA t1 :
    Let(Render(Cur(t1)), LAMBDA r :
        [SetCur(t1, r.sc) EXCEPT !.scopes[Depth(t1) - 1].methods = Append(@, r.parsed)]))

ExitMethod(t) ==
    Let(ExitFunctionDef(t), LAMBDA t1 :
    Let(Render(Cur(t1)), LAMBDA r :
        [SetCur(Discard(t1, r.parsed), r.sc) EXCEPT !.scopes[Depth(t1) - 1].methods = Append(@, r.parsed)]))

StructOf(name, parts) ==
    Stmt(<<Tok("type", ""), goId(name), Grp("struct", parts), Tok("line", "")>>)

ExitClassDefPopFirst(t) ==
    Let(Pop(t), LAMBDA t1 :
        SetCur(t1, Add(Cur(t1), StructOf(Cur(t).fr.cls, Cur(t).fr.parts))))

(* The rest of case *ast.ClassDef: the struct is added to s, then the      *)
(* scope of the class is popped.                                           *)
ExitClassDef(t) ==
    Pop(SetScope(t, Depth(t) - 1,
                 Add(t.scopes[Depth(t) - 1], StructOf(Cur(t).fr.cls, Cur(t).fr.parts))))

(* case *ast.If: the scope is pushed, the test translated in s. *)
EnterIf(t, test, line) ==
    Let(Pre(t, line, "If"), LAMBDA t1 :
    Let(goExpr(test, Imports(t1, Cur(t1))), LAMBDA r :
        IF r.ab # "" THEN Fail(Push(t1, Frame("if", "", line, Null)), r.ab)
        ELSE Declare(Push(t1, Frame("if", "", line, Stmt(<<Grp("if", <<r.f>>)>>))),
                     Depth(t1), r.nm)))

(* case *ast.For: the header is translated in the scope of the loop. *)
EnterFor(t, target, iter, line) ==
    Let(Push(Pre(t, line, "For"), Frame("for", "", line, Null)), LAMBDA t1 :
    Let(goFor(target, iter, Imports(t1, Cur(t1))), LAMBDA r :
        IF r.ab # "" THEN Fail(t1, r.ab)
        ELSE SetCur(t1, [Cur(t1) EXCEPT !.vars = @ \cup r.nm, !.fr.st = r.f])))

(* case *ast.While, of a test that is not the constant True *)
EnterWhile(t, test, line) ==
    Let(Push(Pre(t, line, "While"), Frame("while", "", line, Null)), LAMBDA t1 :
    Let(goExpr(test, Imports(t1, Cur(t1))), LAMBDA r :
        IF r.ab # "" THEN Fail(t1, r.ab)
        ELSE SetCur(t1, [Cur(t1) EXCEPT !.vars = @ \cup r.nm,
                                        !.fr.st = Stmt(<<Grp("for", <<r.f>>)>>)])))

(* The body of an if, for or while ends and its else begins: parseBody     *)
(* runs again in the same scope.                                           *)
BeginElseInNewScope(t) ==
    Let(Render(Cur(t)), LAMBDA r :
        SetCur(Discard(t, r.parsed), [r.sc EXCEPT !.fr.st = Block(@, r.parsed), !.fr.phase = "else",
                               !.fr.i = 0, !.fr.first = "", !.vars = {}]))

BeginElse(t) ==
    Let(Render(Cur(t)), LAMBDA r :
        SetCur(Discard(t, r.parsed), [r.sc EXCEPT !.fr.st = Block(@, r.parsed), !.fr.phase = "else",
                               !.fr.i = 0, !.fr.first = ""]))

(* The rest of case *ast.If, *ast.For and *ast.While. *)
ExitLoopOrIf(t) ==
    Let(Cur(t), LAMBDA s :
    Let(Render(s), LAMBDA r :
    Let(Pop(SetCur(Discard(t, r.parsed), r.sc)), LAMBDA t1 :
        LET elif == s.fr.kind = "if" /\ s.fr.i = 1 /\ s.fr.first = "If"
            stmt == IF s.fr.phase = "body" THEN Block(s.fr.st, r.parsed)
                    ELSE IF elif THEN StAdd(StAdd(s.fr.st, Tok("else", "")), r.parsed)
                    ELSE Block(StAdd(s.fr.st, Tok("else", "")), r.parsed)
        IN SetCur(t1, Add(Cur(t1), stmt)))))

(* case *ast.With: the closure of BlockFunc pushes the scope, translates   *)
(* the items in it and parses the body.                                    *)
EnterWith(t, vars_, ctx, line) ==
    Let(Push(Pre(t, line, "With"), Frame("with", "", line, Null)), LAMBDA t1 :
    Let(goExprs(IF vars_ # Nil THEN <<vars_, ctx>> ELSE <<ctx>>, Imports(t1, Cur(t1))), LAMBDA r :
        IF r.ab # "" THEN Fail(t1, r.ab)
        ELSE SetCur(t1, [Cur(t1) EXCEPT
                           !.vars = @ \cup r.nm,
                           !.fr.parts = <<Comment("with", 0),
                                          IF vars_ # Nil THEN StAdd(StOp(r.fs[1], ":="), r.fs[2])
                                          ELSE r.fs[1]>>])))

ExitWithKeepingScope(t) ==
    Let(Cur(t), LAMBDA s :
    Let(Render(s), LAMBDA r :
        SetCur(Discard(t, r.parsed), Add(r.sc, Stmt(<<Grp("block", s.fr.parts \o <<StAdd(Line, r.parsed)>>)>>)))))

ExitWith(t) ==
    Let(Cur(t), LAMBDA s :
    Let(Render(s), LAMBDA r :
    Let(Pop(SetCur(Discard(t, r.parsed), r.sc)), LAMBDA t1 :
        SetCur(t1, Add(Cur(t1),
                       Stmt(<<Grp("block", s.fr.parts \o <<StAdd(Line, r.parsed)>>)>>))))))

(* case *ast.Try.  fr.parts holds the clauses parsed so far: the try body, *)
(* the cases of the handlers, the else and the finally bodies.             *)
EnterTry(t, line) == Push(Pre(t, line, "Try"), Frame("try", "", line, Null))

(* The clause being parsed ends: its body is rendered into its part. *)
CloseClause(t) ==
    Let(Cur(t), LAMBDA s :
    Let(Render(s), LAMBDA r :
        LET n == Len(s.fr.parts)
            parts == IF s.fr.phase = "body"
                     THEN <<Grp("try", <<Comment("try", 0), r.parsed>>)>>
                     ELSE IF s.fr.phase = "handler"
                     THEN [s.fr.parts EXCEPT ![n] = Block(@, r.parsed)]
                     ELSE Append(s.fr.parts, Grp(s.fr.phase, <<r.parsed>>))
        IN SetCur(Discard(t, r.parsed), [r.sc EXCEPT !.fr.parts = parts, !.fr.i = 0, !.fr.first = ""])))

(* A handler begins: its exception type is translated in the scope of the  *)
(* try.                                                                    *)
BeginHandler(t, exprType) ==
    Let(CloseClause(t), LAMBDA t1 :
    Let(goExpr(exprType, Imports(t1, Cur(t1))), LAMBDA r :
        IF r.ab # "" THEN Fail(t1, r.ab)
        ELSE SetCur(t1, [Cur(t1) EXCEPT
                           !.vars = @ \cup r.nm, !.fr.phase = "handler",
                           !.fr.parts = Append(@, Stmt(<<Grp("case", <<r.f>>)>>))])))

BeginClause(t, phase) ==
    Let(CloseClause(t), LAMBDA t1 : SetCur(t1, [Cur(t1) EXCEPT !.fr.phase = phase]))

PartsOf(parts, k) == SelectSeq(parts, LAMBDA p : p.k = k)
Handlers(parts) == SelectSeq(parts, LAMBDA p : p.k = "stmt")

TryStmtElseAlways(parts) ==
    LET head == Stmt(<<Grp("if", <<Stmt(<<Tok("err", ""), Tok("op", ":="), Tok("func", ""),
                                          Grp("params", <<>>), Grp("params", <<goException>>),
                                          Grp("block", PartsOf(parts, "try")[1].a),
                                          Grp("call", <<>>)>>),
                                   Stmt(<<Tok("err", ""), Tok("op", "!="), Tok("nil", "")>>)>>)>>)
        body == IF Handlers(parts) # <<>>
                THEN Stmt(<<Grp("switch", <<Stmt(<<Tok("err", "")>>)>>),
                            Grp("block", <<Comment("except", 0)>> \o Handlers(parts))>>)
                ELSE Null
        s1 == Block(head, body)
        s2 == IF PartsOf(parts, "else") # <<>>
              THEN StGrp(StAdd(s1, Tok("line", "")), "block", PartsOf(parts, "else")[1].a)
              ELSE s1
    IN IF PartsOf(parts, "final") # <<>>
       THEN StGrp(StAdd(s2, Tok("line", "")), "block",
                  <<Comment("finally", 0)>> \o PartsOf(parts, "final")[1].a)
       ELSE s2

TryStmt(parts) ==
    LET head == Stmt(<<Grp("if", <<Stmt(<<Tok("err", ""), Tok("op", ":="), Tok("func", ""),
                                          Grp("params", <<>>), Grp("params", <<goException>>),
                                          Grp("block", PartsOf(parts, "try")[1].a),
                                          Grp("call", <<>>)>>),
                                   Stmt(<<Tok("err", ""), Tok("op", "!="), Tok("nil", "")>>)>>)>>)
        body == IF Handlers(parts) # <<>>
                THEN Stmt(<<Grp("switch", <<Stmt(<<Tok("err", "")>>)>>),
                            Grp("block", <<Comment("except", 0)>> \o Handlers(parts))>>)
                ELSE Null
        s1 == Block(head, body)
        s2 == IF PartsOf(parts, "else") # <<>>
              THEN StGrp(StAdd(s1, Tok("else", "")), "block", PartsOf(parts, "else")[1].a)
              ELSE s1
    IN IF PartsOf(parts, "final") # <<>>
       THEN StGrp(StAdd(s2, Tok("line", "")), "block",
                  <<Comment("finally", 0)>> \o PartsOf(parts, "final")[1].a)
       ELSE s2

ExitTry(t) ==
    Let(CloseClause(t), LAMBDA t1 :
    Let(Pop(t1), LAMBDA t2 : SetCur(t2, Add(Cur(t2), TryStmt(Cur(t1).fr.parts)))))

-----------------------------------------------------------------------------
(* main: every file of the command line is translated in a new root scope  *)
(* and printed.                                                            *)

NoProc ==
    [scopes |-> <<>>, maps |-> [a \in {} |-> {}], status |-> "run", head |-> <<>>,
     out |-> <<>>, file |-> NewFile]

MainNewScopeShared(t) ==
    IF t.scopes = <<>> THEN NewScope(t.maps, <<>>)
    ELSE NewScope(t.maps, <<t.scopes[1].imports>>)

(* scope := NewScope(jen.NewFile(pname)) *)
MainNewScope(t) == NewScope(t.maps, <<>>)

(* The maps no scope of the chain refers to are garbage. *)
Reachable(maps, scopes) ==
    [a \in {scopes[k].imports : k \in DOMAIN scopes} |-> maps[a]]

StartModule(t) ==
    LET n == MainNewScope(t) IN
    [scopes |-> <<n.sc>>, maps |-> Reachable(n.maps, <<n.sc>>), status |-> "run",
     head |-> <<>>, out |-> <<>>, file |-> NewFile]

(* RenderImports: the imports registered in the file, one after another. *)
RECURSIVE RenderImports(_)
RenderImports(imports) ==
    IF imports = {} THEN <<>>
    ELSE LET p == CHOOSE p \in imports : TRUE
         IN <<Tok("pkg", p)>> \o RenderImports(imports \ {p})

(* parseBody of the module returns and main prints the head of the file,   *)
(* the imports and then the body of the root, a fragment at a time.        *)
FinishModule(t) ==
    LET r == Render(Cur(t))
        t1 == SetCur(Discard(t, r.parsed), r.sc)
    IN [t1 EXCEPT !.status = "printed",
                  !.head = <<Tok("text", "// generated by pygor"), Tok("text", "package"),
                             Tok("text", ""), Grp("imports", RenderImports(t1.file.imports))>>,
                  !.out = r.sc.body \o <<Line>>]

FreshProc == StartModule(NoProc)

(* What a process holds, the addresses of the maps replaced by the maps. *)
View(t) ==
    [scopes |-> [k \in DOMAIN t.scopes |-> [t.scopes[k] EXCEPT !.imports = t.maps[@]]],
     status |-> t.status, out |-> t.out]

-----------------------------------------------------------------------------
(* The program emitted for a generator expression, run as Go runs it: the  *)
(* closure makes the channel c, starts the goroutine of the loops and      *)
(* returns c; whoever called it receives from c.  The run is read off the  *)
(* emitted fragment.  caller is the statement of the closure to run next   *)
(* (0 before the call), cap the capacity of c and buf its buffer, producer *)
(* the state of the goroutine ("run", "blocked" when parked on a send,     *)
(* "done", or "panic") and todo the channel operations it has yet to do,   *)
(* consumer the state of the receiving side ("ready" between receives,     *)
(* "recv" when parked on a receive, "stopped" when it gave up, "done" when *)
(* it saw the close).                                                      *)

NoRun ==
    [caller |-> 0, patient |-> TRUE, made |-> FALSE, cap |-> 0, buf |-> <<>>,
     closed |-> FALSE, closes |-> 0, producer |-> "none", todo |-> <<>>,
     consumer |-> "none", received |-> <<>>]

IsClosure(f) == Len(f.a) = 5 /\ f.a[1] = Tok("func", "") /\ f.a[4].k = "block"
ClosureBody(f) == f.a[4].a
IsMake(st) == Len(st.a) = 3 /\ st.a[3].k = "make"
IsGo(st) == Len(st.a) = 5 /\ st.a[1] = Tok("go", "")
IsReturn(st) == Len(st.a) = 1 /\ st.a[1].k = "return"
GoBody(st) == st.a[4].a

ChanCapacityOne(st) == 1

(* make(chan Any): no size is given, the channel is unbuffered. *)
ChanCapacity(st) == IF Len(st.a[3].a) > 1 THEN st.a[3].a[2].a[1].n ELSE 0

(* The value of a literal or of a variable. *)
Value(f, env) == IF f.a[1].k = "lit" THEN f.a[1].n ELSE env[f.a[1].s]
Bind(env, var, v) == [n \in DOMAIN env \cup {var} |-> IF n = var THEN v ELSE env[n]]

(* The channel operations of a statement of the goroutine, in the order it *)
(* does them: for x := start; x < stop; x += step { ... }, c <- value and  *)
(* close(c).                                                               *)
RECURSIVE Exec(_, _), ExecAll(_, _), Loop(_, _, _, _, _)
ExecAll(sts, env) ==
    IF sts = <<>> THEN <<>> ELSE Exec(Head(sts), env) \o ExecAll(Tail(sts), env)

Loop(var, i, hdr, body, env) ==
    Let(Bind(env, var, i), LAMBDA env1 :
        IF i < Value(hdr[2].a[3], env1)
        THEN ExecAll(body, env1) \o Loop(var, i + Value(hdr[3].a[3], env1), hdr, body, env)
        ELSE <<>>)

Exec(st, env) ==
    CASE st.a[1].k = "for" ->
            Loop(st.a[1].a[1].a[1].s, Value(st.a[1].a[1].a[3], env), st.a[1].a, st.a[2].a, env)
      [] st.a[1].k = "close" -> <<[op |-> "close", v |-> 0]>>
      [] Len(st.a) = 3 /\ st.a[2] = Tok("op", "<-") -> <<[op |-> "send", v |-> Value(st.a[3], env)]>>
      [] OTHER -> <<>>

(* c = make(chan Any) *)
make(r, st) == [r EXCEPT !.caller = @ + 1, !.made = TRUE, !.cap = ChanCapacity(st), !.buf = <<>>]

(* go func() { ... }(): the goroutine is runnable, the closure goes on. *)
go(r, st) ==
    [r EXCEPT !.caller = @ + 1, !.producer = "run",
              !.todo = ExecAll(GoBody(st), [n \in {} |-> 0])]

(* return: the caller has c. *)
return(r) == [r EXCEPT !.caller = @ + 1, !.consumer = "ready"]

(* c <- v by the goroutine: to a parked receiver, into the buffer when it  *)
(* has room, and parked otherwise; a send on a closed channel panics.      *)
chansend(r) ==
    LET v == Head(r.todo).v IN
    IF r.closed THEN [r EXCEPT !.producer = "panic"]
    ELSE IF r.consumer = "recv"
    THEN [r EXCEPT !.todo = Tail(@), !.consumer = "ready", !.received = Append(@, v)]
    ELSE IF Len(r.buf) < r.cap THEN [r EXCEPT !.todo = Tail(@), !.buf = Append(@, v)]
    ELSE [r EXCEPT !.producer = "blocked"]

(* close(c): a parked receiver sees it; closing twice panics. *)
closechan(r) ==
    IF r.closed THEN [r EXCEPT !.producer = "panic"]
    ELSE [r EXCEPT !.todo = Tail(@), !.closed = TRUE, !.closes = @ + 1,
                   !.consumer = IF @ = "recv" THEN "done" ELSE @]

(* <-c by the consumer: from the buffer (a parked sender then moves its    *)
(* value into it), from a parked sender, the close, or parked.             *)
chanrecv(r) ==
    IF r.buf # <<>>
    THEN IF r.producer = "blocked"
         THEN [r EXCEPT !.received = Append(@, Head(r.buf)),
                        !.buf = Append(Tail(@), Head(r.todo).v),
                        !.todo = Tail(@), !.producer = "run"]
         ELSE [r EXCEPT !.received = Append(@, Head(r.buf)), !.buf = Tail(@)]
    ELSE IF r.producer = "blocked"
    THEN [r EXCEPT !.received = Append(@, Head(r.todo).v), !.todo = Tail(@), !.producer = "run"]
    ELSE IF r.closed THEN [r EXCEPT !.consumer = "done"]
    ELSE [r EXCEPT !.consumer = "recv"]

-----------------------------------------------------------------------------
(* The actions.  ev is the statement just visited: its kind, the number of *)
(* statements of the module visited so far (the line of the statement) and *)
(* its nodes.                                                              *)

Ev(op, line, tg) == [op |-> op, line |-> line, tg |-> tg]
NextLine == ev.line + 1
Flags == UNCHANGED <<panicUnknown, lineno, module, input, run, rt>>

Step(Op(_)) == proc' = Op(proc) /\ alone' = Op(alone)

InBody == Running(proc) /\ Cur(proc).fr.kind # "class"
InClass == Running(proc) /\ Cur(proc).fr.kind = "class"
Kind == Cur(proc).fr.kind
Phase == Cur(proc).fr.phase
Visited == Cur(proc).fr.i

Assign(Assigns, max) ==
    /\ InBody /\ ev.line < max
    /\ \E a \in Assigns :
          /\ Step(LAMBDA t : DoAssign(t, a.targets, a.value, NextLine))
          /\ ev' = Ev("Assign", NextLine, a.targets \o <<a.value>>)
    /\ Flags

ExprStmt(Exprs, max) ==
    /\ InBody /\ ev.line < max
    /\ \E e \in Exprs :
          /\ Step(LAMBDA t : DoExprStmt(t, e, NextLine))
          /\ ev' = Ev("ExprStmt", NextLine, <<e>>)
    /\ Flags

Import(Modules, max) ==
    /\ InBody /\ ev.line < max
    /\ \E m \in Modules :
          /\ Step(LAMBDA t : DoImport(t, m, "", NextLine))
          /\ ev' = Ev("Import", NextLine, <<Name(m)>>)
    /\ Flags

Pass(max) ==
    /\ InBody /\ ev.line < max
    /\ Step(LAMBDA t : DoPass(t, NextLine))
    /\ ev' = Ev("Pass", NextLine, <<>>)
    /\ Flags

Delete(Targets, max) ==
    /\ InBody /\ ev.line < max
    /\ \E tg \in Targets :
          /\ Step(LAMBDA t : DoDelete(t, tg, NextLine))
          /\ ev' = Ev("Delete", NextLine, tg)
    /\ Flags

Assertion(Tests, Msgs, max) ==
    /\ InBody /\ ev.line < max
    /\ \E test \in Tests, msg \in Msgs :
          /\ Step(LAMBDA t : DoAssertion(t, test, msg, NextLine))
          /\ ev' = Ev("Assert", NextLine, <<test, msg>>)
    /\ Flags

UnknownStmt(Kinds, max) ==
    /\ InBody /\ ev.line < max
    /\ \E k \in Kinds :
          /\ Step(LAMBDA t : DoUnknownStmt(t, k, NextLine))
          /\ ev' = Ev(k, NextLine, <<>>)
    /\ Flags

FunctionDef(Args, max, maxDepth) ==
    /\ InBody /\ ev.line < max /\ Depth(proc) <= maxDepth
    /\ \E a \in Args :
          /\ Step(LAMBDA t : EnterFunctionDef(t, FuncName(NextLine), a, NextLine))
          /\ ev' = Ev("FunctionDef", NextLine, <<a>>)
    /\ Flags

EndFunctionDef ==
    /\ Running(proc) /\ Kind = "func" /\ Visited > 0
    /\ Step(ExitFunctionDef)
    /\ ev' = Ev("EndFunctionDef", ev.line, <<>>)
    /\ Flags

ClassDef(max, maxDepth) ==
    /\ InBody /\ ev.line < max /\ Depth(proc) <= maxDepth
    /\ Step(LAMBDA t : EnterClassDef(t, ClassName(NextLine), NextLine))
    /\ ev' = Ev("ClassDef", NextLine, <<>>)
    /\ Flags

ClassMember(Members, max) ==
    /\ InClass /\ ev.line < max
    /\ \E m \in Members :
          /\ Step(LAMBDA t : CASE m.k = "Pass" -> ClassPass(t)
                                [] m.k = "ExprStmt" /\ m.a[1].k = "Str" -> ClassDoc(t, m.a[1].s)
                                [] m.k = "ExprStmt" -> ClassExpr(t)
                                [] m.k = "Assign" -> ClassAssign(t, <<m.a[1]>>, m.a[2])
                                [] OTHER -> ClassOther(t))
          /\ ev' = Ev("ClassMember", NextLine, <<m>>)
    /\ Flags

Method(Args, max, maxDepth) ==
    /\ InClass /\ ev.line < max /\ Depth(proc) <= maxDepth
    /\ \E a \in Args :
          /\ Step(LAMBDA t : EnterMethod(t, FuncName(NextLine), a, NextLine))
          /\ ev' = Ev("Method", NextLine, <<a>>)
    /\ Flags

NamedMethod(Names, Args, max, maxDepth) ==
    /\ InClass /\ ev.line < max /\ Depth(proc) <= maxDepth
    /\ \E name \in Names, a \in Args :
          /\ Step(LAMBDA t : EnterMethod(t, name, a, NextLine))
          /\ ev' = Ev("Method", NextLine, <<a, Name(name)>>)
    /\ Flags

EndMethod ==
    /\ Running(proc) /\ Kind = "method" /\ Visited > 0
    /\ Step(ExitMethod)
    /\ ev' = Ev("EndMethod", ev.line, <<>>)
    /\ Flags

EndClassDef ==
    /\ InClass /\ Visited > 0
    /\ Step(ExitClassDef)
    /\ ev' = Ev("EndClassDef", ev.line,
                [i \in DOMAIN Cur(proc).fr.names |-> Name(Cur(proc).fr.names[i])]
                \o <<Name(Cur(proc).fr.cls)>>)
    /\ Flags

If(Tests, max, maxDepth) ==
    /\ InBody /\ ev.line < max /\ Depth(proc) <= maxDepth
    /\ \E e \in Tests :
          /\ Step(LAMBDA t : EnterIf(t, e, NextLine))
          /\ ev' = Ev("If", NextLine, <<e>>)
    /\ Flags

For(Targets, Iters, max, maxDepth) ==
    /\ InBody /\ ev.line < max /\ Depth(proc) <= maxDepth
    /\ \E tg \in Targets, it \in Iters :
          /\ Step(LAMBDA t : EnterFor(t, tg, it, NextLine))
          /\ ev' = Ev("For", NextLine, <<tg, it>>)
    /\ Flags

While(Tests, max, maxDepth) ==
    /\ InBody /\ ev.line < max /\ Depth(proc) <= maxDepth
    /\ \E e \in Tests :
          /\ Step(LAMBDA t : EnterWhile(t, e, NextLine))
          /\ ev' = Ev("While", NextLine, <<e>>)
    /\ Flags

Else ==
    /\ Running(proc) /\ Kind \in {"if", "for", "while"} /\ Phase = "body" /\ Visited > 0
    /\ Step(BeginElse)
    /\ ev' = Ev("Else", ev.line, <<>>)
    /\ Flags

EndLoopOrIf ==
    /\ Running(proc) /\ Kind \in {"if", "for", "while"} /\ Visited > 0
    /\ Step(ExitLoopOrIf)
    /\ ev' = Ev("EndLoopOrIf", ev.line, <<>>)
    /\ Flags

With(Ctxs, max, maxDepth) ==
    /\ InBody /\ ev.line < max /\ Depth(proc) <= maxDepth
    /\ \E c \in Ctxs :
          /\ Step(LAMBDA t : EnterWith(t, Nil, c, NextLine))
          /\ ev' = Ev("With", NextLine, <<c>>)
    /\ Flags

EndWith ==
    /\ Running(proc) /\ Kind = "with" /\ Visited > 0
    /\ Step(ExitWith)
    /\ ev' = Ev("EndWith", ev.line, <<>>)
    /\ Flags

Try(max, maxDepth) ==
    /\ InBody /\ ev.line < max /\ Depth(proc) <= maxDepth
    /\ Step(LAMBDA t : EnterTry(t, NextLine))
    /\ ev' = Ev("Try", NextLine, <<>>)
    /\ Flags

Except(Types) ==
    /\ Running(proc) /\ Kind = "try" /\ Phase \in {"body", "handler"} /\ Visited > 0
    /\ \E e \in Types :
          /\ Step(LAMBDA t : BeginHandler(t, e))
          /\ ev' = Ev("Except", ev.line, <<e>>)
    /\ Flags

OrElse ==
    /\ Running(proc) /\ Kind = "try" /\ Phase = "handler" /\ Visited > 0
    /\ Step(LAMBDA t : BeginClause(t, "else"))
    /\ ev' = Ev("OrElse", ev.line, <<>>)
    /\ Flags

Finally ==
    /\ Running(proc) /\ Kind = "try" /\ Phase \in {"body", "handler", "else"} /\ Visited > 0
    /\ Step(LAMBDA t : BeginClause(t, "final"))
    /\ ev' = Ev("Finally", ev.line, <<>>)
    /\ Flags

EndTry ==
    /\ Running(proc) /\ Kind = "try" /\ Phase \in {"handler", "else", "final"} /\ Visited > 0
    /\ Step(ExitTry)
    /\ ev' = Ev("EndTry", ev.line, <<>>)
    /\ Flags

EndModule ==
    /\ Running(proc) /\ Depth(proc) = 1
    /\ Step(FinishModule)
    /\ ev' = Ev("EndModule", ev.line, <<>>)
    /\ Flags

(* The loop of main goes on to the next file; a fresh process would start  *)
(* on that file.                                                           *)
NextModule ==
    /\ proc.status = "printed" /\ module < MaxModules
    /\ module' = module + 1
    /\ proc' = StartModule(proc)
    /\ alone' = FreshProc
    /\ ev' = Ev("Module", 0, <<>>)
    /\ UNCHANGED <<panicUnknown, lineno, input, run, rt>>

(* The emitted program runs once the module is printed; its closure is the *)
(* first fragment of the output.                                           *)
Program == ClosureBody(proc.out[1])
Translator == UNCHANGED <<panicUnknown, lineno, module, proc, alone, input, ev, rt>>
AtStmt(Is(_)) == run.caller > 0 /\ run.caller <= Len(Program) /\ Is(Program[run.caller])

(* The closure is called; the one who calls it goes on receiving until the *)
(* close (patient) or may give up before.                                  *)
GenCall ==
    /\ proc.status = "printed" /\ proc.out # <<>> /\ IsClosure(proc.out[1])
    /\ run.caller = 0
    /\ \E p \in BOOLEAN : run' = [run EXCEPT !.caller = 1, !.patient = p]
    /\ Translator

GenMake == AtStmt(IsMake) /\ run' = make(run, Program[run.caller]) /\ Translator

GenGo == AtStmt(IsGo) /\ run' = go(run, Program[run.caller]) /\ Translator

GenReturn == AtStmt(IsReturn) /\ run' = return(run) /\ Translator

ProducerSend ==
    /\ run.producer = "run" /\ run.todo # <<>> /\ Head(run.todo).op = "send"
    /\ run' = chansend(run)
    /\ Translator

ProducerClose ==
    /\ run.producer = "run" /\ run.todo # <<>> /\ Head(run.todo).op = "close"
    /\ run' = closechan(run)
    /\ Translator

(* The function of the goroutine returns. *)
ProducerExit ==
    /\ run.producer = "run" /\ run.todo = <<>>
    /\ run' = [run EXCEPT !.producer = "done"]
    /\ Translator

ConsumerRecv == run.consumer = "ready" /\ run' = chanrecv(run) /\ Translator

ConsumerStop ==
    /\ run.consumer = "ready" /\ ~run.patient
    /\ run' = [run EXCEPT !.consumer = "stopped"]
    /\ Translator

-----------------------------------------------------------------------------
(* Spec: modules of assignments, expression statements, imports, functions *)
(* and ifs.                                                                *)

Assigns ==
    {[targets |-> <<Name("x")>>, value |-> Num(1)],
     [targets |-> <<Name("y")>>, value |-> Num(1)],
     [targets |-> <<Name("x"), Name("y")>>, value |-> Num(1)],
     [targets |-> <<Name("x")>>, value |-> Lambda(Params(<<"x">>), Name("x"))]}
StmtExprs == {At(SetOf(<<>>), 2, 4), Attribute(Name("m"), "a")}
Modules == {"m"}
UnknownStmts == {"Global"}
FuncArgs == {Params(<<"x">>)}
Tests == {Name("p")}

Start ==
    /\ module = 1
    /\ proc = FreshProc
    /\ alone = FreshProc
    /\ ev = Ev("Module", 0, <<>>)
    /\ run = NoRun

NoCall == [bag |-> 0, value |-> 0, ret |-> "none"]

Init ==
    /\ panicUnknown \in BOOLEAN
    /\ lineno = FALSE
    /\ input = <<>>
    /\ Start
    /\ rt = NoCall

AssignStmt == Assign(Assigns, MaxStmts)
ExprStatement == ExprStmt(StmtExprs, MaxStmts)
ImportStmt == Import(Modules, MaxStmts)
OtherStmt == UnknownStmt(UnknownStmts, MaxStmts)
FunctionStmt == FunctionDef(FuncArgs, MaxStmts, MaxDepth)
IfStmt == If(Tests, MaxStmts, MaxDepth)

Next ==
    \/ AssignStmt
    \/ ExprStatement
    \/ ImportStmt
    \/ OtherStmt
    \/ FunctionStmt
    \/ EndFunctionDef
    \/ IfStmt
    \/ Else
    \/ EndLoopOrIf
    \/ EndModule
    \/ NextModule

Spec == Init /\ [][Next]_vars

-----------------------------------------------------------------------------
(* Properties of Spec.                                                     *)

LastFrag(t) == Cur(t).body[Len(Cur(t).body)]
IsDeclaration(f) == Len(f.a) > 0 /\ f.a[1] = Tok("var", "")

(* The step visits an assignment statement that is translated. *)
AssignStep == ev'.op = "Assign" /\ ev'.line = ev.line + 1 /\ Running(proc')
TargetNames == {ev'.tg[i].s : i \in 1..(Len(ev'.tg) - 1)}
AssignedValue == ev'.tg[Len(ev'.tg)]
NewTargets == {n \in TargetNames : ~\E k \in DOMAIN proc.scopes : n \in proc.scopes[k].vars}

(* C1: an assignment to plain names outside a class is emitted as a        *)
(* declaration (var) exactly when one of its target names is in the        *)
(* declared-name set of neither the current scope nor an ancestor when the *)
(* statement is reached; otherwise it is a rebinding.                      *)
C1_ScopeSoundness ==
    [][AssignStep => (IsDeclaration(LastFrag(proc')) <=> NewTargets # {})]_vars

(* C2: the newNames call of an assignment (here of a value that declares   *)
(* nothing itself) inserts the target names found in no scope of the chain *)
(* into the current scope only, leaves the declared-name set of every      *)
(* ancestor as it was, inserts no name that was found, and returns true    *)
(* (the statement becomes a declaration) exactly when a name was inserted. *)
C2_NewNamesFrame ==
    [][AssignStep /\ AssignedValue.k # "Lambda" =>
          /\ Depth(proc') = Depth(proc)
          /\ \A k \in 1..(Depth(proc) - 1) : proc'.scopes[k].vars = proc.scopes[k].vars
          /\ Cur(proc').vars = Cur(proc).vars \cup NewTargets
          /\ IsDeclaration(LastFrag(proc')) <=> NewTargets # {}]_vars

(* x is declared in the root, then x and y are assigned in a nested scope: *)
(* y alone is inserted, into the nested scope, and the statement is a      *)
(* declaration.                                                            *)
C2_Witness ==
    /\ ev.op = "Assign" /\ ev.tg = <<Name("x"), Name("y"), Num(1)>>
    /\ Depth(proc) = 2 /\ proc.scopes[1].vars = {"x"} /\ Cur(proc).vars = {"y"}
    /\ IsDeclaration(LastFrag(proc))

UnknownExpr == ev.op = "ExprStmt" /\ ev.tg[1].k \in UnmappedKinds
IsUnknownLit(f, e) ==
    /\ Len(f.a) = 1 /\ f.a[1].k = "lit"
    /\ {Tok("type", e.k), Tagged("line", "", e.l, <<>>), Tagged("col", "", e.c, <<>>)}
          \subseteq Parts(f)
HasUnknownLit(body) == \E i \in DOMAIN body : \E x \in Parts(body[i]) : x.k = "lit" /\ x.s = "UNKNOWN"

(* C7: an expression statement of a node type goExpr has no case for: in   *)
(* lenient mode its fragment is a literal holding the type of the node,    *)
(* its line and its column, and the process goes on; in strict mode the    *)
(* process ends there with a panic, no fragment is added for the node and  *)
(* no step follows.                                                        *)
C7_UnknownFallback ==
    /\ [](UnknownExpr =>
            IF panicUnknown
            THEN proc.status = "panic: unknown" /\ ~HasUnknownLit(Cur(proc).body)
            ELSE Running(proc) /\ IsUnknownLit(LastFrag(proc), ev.tg[1]))
    /\ [][~Ended(proc)]_vars

(* In lenient mode a statement is translated after the unknown one. *)
C7_Witness ==
    /\ ~panicUnknown /\ proc.status = "printed" /\ ev.line = 2
    /\ Len(proc.out) = 4
    /\ IsUnknownLit(proc.out[1], At(SetOf(<<>>), 2, 4))
    /\ IsDeclaration(proc.out[3])

Aliases(t, k) == {p[1] : p \in Imports(t, t.scopes[k])}
ParamsOf(args) == SeqRange(args.a[1].o)
UsesAlias == ev.op = "ExprStmt" /\ ev.tg[1].k = "Attribute" /\ Running(proc)

(* C14: every scope of the chain is on the alias map of the root and has   *)
(* the level of its parent plus one; the scope a block pushes declares     *)
(* nothing but the parameters of the function it is the scope of; an alias *)
(* stays bound while the module is translated, whatever scope registered   *)
(* it and whether or not that scope was popped since: m.a is translated to *)
(* the qualified name, in any scope, exactly when m was imported anywhere  *)
(* in the module before.                                                   *)
C14_PushContract ==
    /\ [](\A k \in DOMAIN proc.scopes :
            /\ proc.scopes[k].imports = proc.scopes[1].imports
            /\ proc.scopes[k].level = k - 1)
    /\ [](ev.op = "Import" => ev.tg[1].s \in Aliases(proc, 1))
    /\ [](UsesAlias => (LastFrag(proc) = Qual(ev.tg[1].a[1].s, ev.tg[1].s)
                          <=> ev.tg[1].a[1].s \in Aliases(proc, 1)))
    /\ [][Depth(proc') = Depth(proc) + 1 =>
            Cur(proc').vars = IF ev'.op = "FunctionDef" THEN ParamsOf(ev'.tg[1]) ELSE {}]_vars
    /\ [][module' = module => Aliases(proc, 1) \subseteq Aliases(proc', 1)]_vars

(* m is imported in the body of a function; after the function, in the     *)
(* root scope, m.a is the qualified name.                                  *)
C14_Witness ==
    /\ ev.op = "ExprStmt" /\ Depth(proc) = 1 /\ Len(Cur(proc).body) = 3
    /\ LastFrag(proc) = Qual("m", "a")
    /\ Cur(proc).body[1].a[1] = Tok("func", "") /\ Cur(proc).body[1].a[2] = Id(FuncName(1))
    /\ Tok("module", "m") \in Parts(Cur(proc).body[1])

-----------------------------------------------------------------------------
(* SpecClass: modules of classes with methods, nested in functions, ifs    *)
(* and with blocks.                                                        *)

MethodArgs == {Params(<<"self">>)}
NoArgs == {Params(<<>>)}
Members == {Node("Pass", "", 0, <<>>, <<>>), Node("Assign", "", 0, <<Name("x"), Num(1)>>, <<>>)}
Contexts == {Name("p")}

InitClass ==
    /\ panicUnknown = FALSE
    /\ lineno = FALSE
    /\ input = <<>>
    /\ Start
    /\ rt = NoCall

PassStmt == Pass(MaxClassStmts)
ClassStmt == ClassDef(MaxClassStmts, MaxClassDepth)
MemberStmt == ClassMember(Members, MaxClassStmts)
MethodStmt == Method(MethodArgs, MaxClassStmts, MaxClassDepth)
DefStmt == FunctionDef(NoArgs, MaxClassStmts, MaxClassDepth)
IfBlock == If(Tests, MaxClassStmts, MaxClassDepth)
WithBlock == With(Contexts, MaxClassStmts, MaxClassDepth)

NextClass ==
    \/ PassStmt
    \/ ClassStmt
    \/ MemberStmt
    \/ MethodStmt
    \/ EndMethod
    \/ EndClassDef
    \/ DefStmt
    \/ EndFunctionDef
    \/ IfBlock
    \/ EndLoopOrIf
    \/ WithBlock
    \/ EndWith
    \/ EndModule

SpecClass == InitClass /\ [][NextClass]_vars

-----------------------------------------------------------------------------
(* Properties of SpecClass.                                                *)

ClassNames == {ClassName(l) : l \in 1..MaxClassStmts}
RootBody == proc.scopes[1].body

IsStruct(f, cls) == Len(f.a) >= 3 /\ f.a[1] = Tok("type", "") /\ f.a[2] = Id(cls)
IsFuncOf(g, cls) ==
    /\ Len(g.a) >= 3 /\ g.a[1] = Tok("func", "")
    /\ g.a[2].k = "params" /\ Len(g.a[2].a) = 1
    /\ g.a[2].a[1].a[Len(g.a[2].a[1].a)] = Tok("id", cls)
IsFuncNamed(g, name) == Len(g.a) >= 3 /\ g.a[1] = Tok("func", "") /\ g.a[3] = Id(name)
(* A fragment of the root body that is a method of the class cls, that is  *)
(* the method called name.                                                 *)
IsMethodOf(f, cls) == \E i \in DOMAIN f.a : IsFuncOf(f.a[i], cls)
IsMethodNamed(f, name) == \E i \in DOMAIN f.a : IsFuncNamed(f.a[i], name)
HoldsMethodOf(f, cls) == \E x \in Parts(f) : IsFuncOf(x, cls)
HoldsStruct(f, cls) == \E x \in Parts(f) : IsStruct(x, cls)
MethodsOf(cls) == {j \in DOMAIN RootBody : IsMethodOf(RootBody[j], cls)}

(* C3: the struct of a class defined at the top level of the module is     *)
(* followed at once in the root body by the fragments of the methods of    *)
(* the class, all of them and nothing between them, in source order; no    *)
(* method is inside the struct.                                            *)
C3_MethodFlushing ==
    /\ \A p \in DOMAIN RootBody : \A cls \in ClassNames :
          IsStruct(RootBody[p], cls) =>
             /\ MethodsOf(cls) = (p + 1)..(p + Cardinality(MethodsOf(cls)))
             /\ ~HoldsMethodOf(RootBody[p], cls)
    /\ ev.op = "EndClassDef" /\ Depth(proc) = 1 =>
          LET n == Len(ev.tg) - 1
              cls == ev.tg[n + 1].s
          IN \E p \in DOMAIN RootBody :
                /\ IsStruct(RootBody[p], cls)
                /\ MethodsOf(cls) = (p + 1)..(p + n)
                /\ \A i \in 1..n : IsMethodNamed(RootBody[p + i], ev.tg[i].s)

(* A class of two methods at the top level has just been translated. *)
C3_Witness ==
    /\ ev.op = "EndClassDef" /\ Depth(proc) = 1 /\ Len(ev.tg) = 3
    /\ Len(RootBody) = 3
    /\ IsStruct(RootBody[1], ev.tg[3].s)
    /\ IsMethodNamed(RootBody[2], ev.tg[1].s) /\ IsMethodNamed(RootBody[3], ev.tg[2].s)

(* C4: every method fragment of the root body comes after the fragment of  *)
(* the root body that holds the struct of its class, at whatever depth the *)
(* class is defined.                                                       *)
C4_MethodsAfterStruct ==
    \A j \in DOMAIN RootBody : \A cls \in ClassNames :
        IsMethodOf(RootBody[j], cls) => \E i \in 1..(j - 1) : HoldsStruct(RootBody[i], cls)

(* The method fragments held: in the methods of the scopes and, flushed,   *)
(* in the root body; and the names of their functions.                     *)
IsMethod(g) ==
    /\ Len(g.a) >= 3 /\ g.a[1] = Tok("func", "")
    /\ g.a[2].k = "params" /\ Len(g.a[2].a) = 1
IsMethodFrag(f) == \E i \in DOMAIN f.a : IsMethod(f.a[i])
Flushed(t) == SelectSeq(t.scopes[1].body, IsMethodFrag)
RECURSIVE Buffered(_, _)
Buffered(t, k) == IF k = 0 THEN <<>> ELSE Buffered(t, k - 1) \o t.scopes[k].methods
Held(t) == Flushed(t) \o Buffered(t, Depth(t))
MethodName(f) == (CHOOSE g \in {f.a[i] : i \in DOMAIN f.a} : IsMethod(g)).a[3]
Names(fs) == {MethodName(fs[i]) : i \in DOMAIN fs}
ClosedMethod == proc.scopes[Depth(proc) - 1].fr.names[Len(proc.scopes[Depth(proc) - 1].fr.names)]

(* C21: the fragment of a method is held once, in the methods of a scope   *)
(* or in the root body, from the step that ends the method on: no step     *)
(* drops or doubles it; when the module has been translated every fragment *)
(* is in the root body and the methods of the root are empty.              *)
C21_FlushedOnce ==
    /\ [](Cardinality(Names(Held(proc))) = Len(Held(proc)))
    /\ [][Names(Held(proc')) =
            Names(Held(proc)) \cup (IF ev'.op = "EndMethod" THEN {Id(ClosedMethod)} ELSE {})]_vars
    /\ [][ev'.op = "EndMethod" => Id(ClosedMethod) \notin Names(Held(proc))]_vars
    /\ [](proc.status = "printed" =>
            /\ Depth(proc) = 1 /\ proc.scopes[1].methods = <<>>
            /\ Flushed(proc) = Held(proc))

(* def f(): class C: def m(self): pass  has been translated: the method of *)
(* the class in the function is in the root body.                          *)
C21_Witness ==
    /\ proc.status = "printed" /\ Len(RootBody) = 2
    /\ \E cls \in ClassNames :
          /\ IsMethodOf(RootBody[1], cls) /\ HoldsStruct(RootBody[2], cls)
          /\ Flushed(proc) = <<RootBody[1]>>

-----------------------------------------------------------------------------
(* SpecExpr: the body of the module is given ahead; its statements are     *)
(* expression statements and for loops over the expressions below.         *)

SeqsOf(S, lo, hi) == UNION {[1..n -> S] : n \in lo..hi}
ExprStmtOf(e) == Node("ExprStmt", "", 0, <<e>>, <<>>)
ForOf(target, iter) == Node("For", "", 0, <<target, iter>>, <<>>)
Range(args) == CallOf(Name("range"), args)

OperandNames == <<"a", "b", "c", "d", "e", "f">>
Operand(i) == CallOf(Name(OperandNames[i]), <<>>)
CmpOps == {"Lt", "IsNot", "In", "NotIn"}
CompareInputs ==
    {Compare(Operand(1), ops, [i \in 1..Len(ops) |-> Operand(i + 1)]) :
        ops \in SeqsOf(CmpOps, 1, MaxOps)}

SliceInputs ==
    {Subscript(Name("a"), Slice(lo, hi, step)) :
        lo \in {Nil, Num(1)}, hi \in {Nil, Name("n")}, step \in {Nil, Num(2)}}
    \cup {Subscript(Name("a"), Index(Num(1))), Subscript(Name("a"), ExtSlice)}

Elements == {Name("x"), CallOf(Lambda(Params(<<"y">>), Name("y")), <<Name("x")>>)}
Clauses ==
    {Comprehension(Name("x"), it, ifs) :
        it \in {Name("xs"), Range(<<Num(5)>>)}, ifs \in {<<>>, <<Name("p")>>}}
CompInputs ==
    UNION {{ListComp(elt, gens), DictComp(elt, Name("x"), gens), GeneratorExp(elt, gens)} :
              elt \in Elements, gens \in SeqsOf(Clauses, 1, MaxGens)}
SiblingComps == {ListComp(elt, <<Comprehension(Name("x"), Name("xs"), <<>>)>>) : elt \in Elements}

RangeArgs == {Num(2), Num(10), Num(3), Name("a")}
ForInputs ==
    {ForOf(Name("i"), Range(args)) : args \in SeqsOf(RangeArgs, 0, MaxRangeArgs)}
    \cup {ForOf(Name("i"), Name("xs")), ForOf(TupleOf(<<Name("k"), Name("v")>>), Operand(1))}

(* Parameter lists of every combination of positional, keyword-only, *args *)
(* and **kwargs parameters, for lambdas and for function definitions; an   *)
(* integer literal too large for an int; comprehensions over range of any  *)
(* number of arguments.                                                    *)
ParamLists ==
    {Arguments(pos, kwonly, vararg, kwarg) :
        pos \in {<<>>, <<"p">>}, kwonly \in {<<>>, <<"k">>},
        vararg \in {<<>>, <<"args">>}, kwarg \in {<<>>, <<"kwargs">>}}
LambdaInputs == {Lambda(args, Num(1)) : args \in ParamLists}
FuncOf(args) == Node("FunctionDef", "", 0, <<args>>, <<>>)
FuncInputs == {FuncOf(args) : args \in ParamLists}
BigNum == Node("Num", "BigInt", 0, <<>>, <<>>)
UnaryInputs == {UnaryOp(op, Name("x")) : op \in {"Invert", "Not", "UAdd", "USub"}}
RangeComps ==
    {ListComp(Name("x"), <<Comprehension(Name("x"), Range(args), <<>>)>>) :
        args \in SeqsOf({Num(2)}, 0, MaxRangeArgs)}

Bodies ==
    {<<ExprStmtOf(e)>> :
        e \in CompareInputs \cup SliceInputs \cup CompInputs \cup {At(SetOf(<<>>), 3, 7)}
               \cup LambdaInputs \cup RangeComps \cup {BigNum} \cup UnaryInputs}
    \cup {<<f>> : f \in ForInputs \cup FuncInputs}
    \cup {[i \in DOMAIN b |-> ExprStmtOf(b[i])] : b \in SeqsOf(SiblingComps, 2, MaxSiblings)}

InitExpr ==
    /\ panicUnknown \in BOOLEAN
    /\ lineno \in BOOLEAN
    /\ input \in Bodies
    /\ Start
    /\ rt = NoCall

MoreInput(k) == InBody /\ ev.line < Len(input) /\ input[NextLine].k = k

ExprInput ==
    /\ MoreInput("ExprStmt")
    /\ Step(LAMBDA t : DoExprStmt(t, input[NextLine].a[1], NextLine))
    /\ ev' = Ev("ExprStmt", NextLine, input[NextLine].a)
    /\ Flags

ForInput ==
    /\ MoreInput("For")
    /\ Step(LAMBDA t : EnterFor(t, input[NextLine].a[1], input[NextLine].a[2], NextLine))
    /\ ev' = Ev("For", NextLine, input[NextLine].a)
    /\ Flags

DefInput ==
    /\ MoreInput("FunctionDef")
    /\ Step(LAMBDA t : EnterFunctionDef(t, FuncName(NextLine), input[NextLine].a[1], NextLine))
    /\ ev' = Ev("FunctionDef", NextLine, input[NextLine].a)
    /\ Flags

(* The body of a loop or of a function of the input is a pass statement. *)
BodyPass ==
    /\ Running(proc) /\ Kind \in {"for", "func"} /\ Visited = 0
    /\ Step(LAMBDA t : DoPass(t, ev.line))
    /\ ev' = Ev("Pass", ev.line, <<>>)
    /\ Flags

EndInput == ev.line = Len(input) /\ EndModule

NextExpr ==
    \/ ExprInput
    \/ ForInput
    \/ DefInput
    \/ BodyPass
    \/ EndLoopOrIf
    \/ EndFunctionDef
    \/ EndInput

SpecExpr == InitExpr /\ [][NextExpr]_vars

-----------------------------------------------------------------------------
(* Properties of SpecExpr.                                                 *)

(* The fragment of a name or a number, and of a call without arguments. *)
Atom(e) == IF e.k = "Num" THEN LitInt(e.n) ELSE Id(e.s)
CallFrag(e) == Stmt(<<Tok("id", e.a[1].s), Grp("call", <<>>)>>)
Translated(k) == ev.op = "ExprStmt" /\ ev.tg[1].k = k /\ Running(proc)

(* C5: in the conjunction emitted for a chained comparison, the fragment   *)
(* of every comparator that is not the last appears once.                  *)
C5_ComparatorOnce ==
    Translated("Compare") =>
        \A i \in 2..Len(ev.tg[1].o) :
            Occurrences(LastFrag(proc), CallFrag(ev.tg[1].a[i])) = 1

(* The operator of the Go program for a unary operator of Python. *)
GoUnaryOperator(op) ==
    CASE op = "Not" -> "!" [] op = "UAdd" -> "+" [] op = "USub" -> "-" [] op = "Invert" -> "-"

(* C23: in lenient and in strict mode ~x becomes the negation of the       *)
(* parenthesised sum x + 1 and holds no unknown-construct literal; not x,  *)
(* +x and -x become !, + and - before the operand.                         *)
C23_UnaryOperators ==
    ev.op = "ExprStmt" /\ ev.tg[1].k = "UnaryOp" =>
        LET e == ev.tg[1]
            op == Tok("op", GoUnaryOperator(e.s))
            x == Id(e.a[1].s)
        IN /\ Running(proc)
           /\ ~\E f \in Parts(LastFrag(proc)) : f.k = "lit" /\ f.s = "UNKNOWN"
           /\ LastFrag(proc) =
                 IF e.s = "Invert"
                 THEN Stmt(<<op, Grp("parens", <<Stmt(<<x.a[1], Tok("op", "+"), LitInt(1).a[1]>>)>>)>>)
                 ELSE Stmt(<<op, x>>)

(* C22: the step that translates an expression statement leaves the       *)
(* declared names of every scope, the number of scopes and the alias maps  *)
(* as they were.                                                           *)
C22_StatelessExpr ==
    [][ev'.op = "ExprStmt" /\ ev'.line = ev.line + 1 /\ Running(proc') =>
          /\ Depth(proc') = Depth(proc)
          /\ \A k \in 1..Depth(proc) : proc'.scopes[k].vars = proc.scopes[k].vars
          /\ proc'.maps = proc.maps]_vars

(* The operator of the Go program for a comparison operator of Python. *)
GoOperator(op) ==
    CASE op = "Eq" -> "==" [] op = "NotEq" -> "!=" [] op = "Lt" -> "<" [] op = "LtE" -> "<="
      [] op = "Gt" -> ">" [] op = "GtE" -> ">=" [] op = "Is" -> "==" [] op = "IsNot" -> "!="

(* Pair i of a comparison: operand i against operand i + 1. *)
PairTest(c, i) ==
    LET left == CallFrag(c.a[i])
        right == CallFrag(c.a[i + 1])
        contains == Stmt(<<Qual(RuntimePkg, "Contains").a[1], Grp("call", <<right, left>>)>>)
    IN IF c.o[i] = "In" THEN <<contains>>
       ELSE IF c.o[i] = "NotIn" THEN <<Tok("op", "!"), contains>>
       ELSE <<left, Stmt(<<Tok("op", GoOperator(c.o[i]))>>), right>>

RECURSIVE Conjunction(_, _)
Conjunction(c, n) ==
    IF n = 1 THEN PairTest(c, 1)
    ELSE Conjunction(c, n - 1) \o <<Tok("op", "&&")>> \o PairTest(c, n)

(* C19: a comparison of n operators is emitted as its n pair tests in      *)
(* order, joined by n - 1 operators &&; pair i tests operand i against     *)
(* operand i + 1, as Contains(right, left) for in, as !Contains(right,     *)
(* left) for not in, and with the operator of the table between the two    *)
(* operands otherwise; the translator is called once on the left operand   *)
(* and once on every comparator, in that order.                            *)
C19_ChainedComparison ==
    Translated("Compare") =>
        LET c == ev.tg[1]
            n == Len(c.o)
        IN /\ LastFrag(proc) = Stmt(Conjunction(c, n))
           /\ Occurrences(LastFrag(proc), Tok("op", "&&")) = n - 1
           /\ goExpr(c, Imports(proc, Cur(proc))).tr = c.a

(* a() < b() in c() is emitted as a() < b() && Contains(c(), b()) *)
C19_Witness ==
    /\ Translated("Compare")
    /\ ev.tg[1].o = <<"Lt", "In">>
    /\ LastFrag(proc).a[4] = Tok("op", "&&")
    /\ LastFrag(proc).a[5].a[2].a = <<CallFrag(Operand(3)), CallFrag(Operand(2))>>

(* The header for <target> in range(<args>) is to have. *)
RangeHeader(target, args) ==
    LET n == Len(args)
        t == Tok("id", target.s)
        start == IF n = 1 THEN LitInt(0) ELSE Atom(args[1])
        stop == IF n = 1 THEN Atom(args[1]) ELSE Atom(args[2])
        step == IF n = 3 THEN Atom(args[3]) ELSE LitInt(1)
    IN Grp("for", <<Stmt(<<t, Tok("op", ":="), start>>),
                    Stmt(<<t, Tok("op", "<"), stop>>),
                    Stmt(<<t, Tok("op", "+="), step>>)>>)
IsRange(iter) == iter.k = "Call" /\ iter.a[1] = Name("range")
RangeClauses(e) ==
    {i \in DOMAIN e.a : e.a[i].k = "comprehension" /\ IsRange(e.a[i].a[2])}

(* C6: a loop over range with one, two or three arguments, as a for        *)
(* statement or as the clause of a comprehension, becomes the counted loop *)
(* target := start; target < stop; target += step, where start is 0 when   *)
(* one argument is given and step is 1 unless three are.                   *)
C6_RangeLowering ==
    /\ ev.op = "For" /\ IsRange(ev.tg[2]) /\ Len(ev.tg[2].a) - 1 \in 1..3 =>
          /\ Running(proc)
          /\ Cur(proc).fr.st = Stmt(<<RangeHeader(ev.tg[1], Tail(ev.tg[2].a))>>)
    /\ ev.op = "ExprStmt" /\ Running(proc) =>
          \A i \in RangeClauses(ev.tg[1]) :
              RangeHeader(ev.tg[1].a[i].a[1], Tail(ev.tg[1].a[i].a[2].a))
                 \in Parts(LastFrag(proc))

(* for i in range(2, 10, 3) *)
C6_Witness ==
    /\ ev.op = "For" /\ ev.tg = <<Name("i"), Range(<<Num(2), Num(10), Num(3)>>)>>
    /\ Cur(proc).fr.st.a[1].a =
          <<Stmt(<<Tok("id", "i"), Tok("op", ":="), LitInt(2)>>),
            Stmt(<<Tok("id", "i"), Tok("op", "<"), LitInt(10)>>),
            Stmt(<<Tok("id", "i"), Tok("op", "+="), LitInt(3)>>)>>

SliceOf(e) == e.a[2]
BoundFrag(b) == IF b = Nil THEN Empty ELSE Atom(b)
HasIndex(body) == \E i \in DOMAIN body : \E x \in Parts(body[i]) : x.k = "index"

(* C8: a subscript by a slice with a step ends the process with the panic  *)
(* "step index not implemented", in lenient and in strict mode, and no     *)
(* subscript is emitted; a slice without a step becomes the index of its   *)
(* two bounds, a bound that is not given being empty.                      *)
C8_SliceStep ==
    ev.op = "ExprStmt" /\ ev.tg[1].k = "Subscript" /\ SliceOf(ev.tg[1]).k = "Slice" =>
        IF SliceOf(ev.tg[1]).a[3] # Nil
        THEN proc.status = "panic: step index not implemented" /\ ~HasIndex(Cur(proc).body)
        ELSE /\ Running(proc)
             /\ LastFrag(proc) = Stmt(<<Tok("id", ev.tg[1].a[1].s),
                                        Grp("index", <<BoundFrag(SliceOf(ev.tg[1]).a[1]),
                                                       BoundFrag(SliceOf(ev.tg[1]).a[2])>>)>>)

(* a[1::2] in lenient mode *)
C8_Witness ==
    /\ ~panicUnknown
    /\ ev.op = "ExprStmt" /\ ev.tg = <<Subscript(Name("a"), Slice(Num(1), Nil, Num(2)))>>
    /\ proc.status = "panic: step index not implemented"

IsComprehension(st) == st.k = "ExprStmt" /\ st.a[1].k \in {"ListComp", "DictComp", "GeneratorExp"}
Comprehensions == \A i \in DOMAIN input : IsComprehension(input[i])

(* C9: while the comprehensions of a body are translated no scope declares *)
(* an accumulator name (lc, mm, c), and the declared-name set of the       *)
(* enclosing scope stays what it was before them, here empty.              *)
C9_AccumulatorIsolation ==
    Comprehensions =>
        /\ \A k \in DOMAIN proc.scopes : proc.scopes[k].vars \cap {"lc", "mm", "c"} = {}
        /\ proc.scopes[1].vars = {}

(* The nodes of an expression, itself included. *)
RECURSIVE NodeParts(_)
NodeParts(e) == {e} \cup UNION {NodeParts(e.a[i]) : i \in DOMAIN e.a}
Unsliced(e) ==
    \A x \in NodeParts(e) : x.k # "ExtSlice" /\ (x.k = "Slice" => x.a[3] = Nil)

(* C11: in lenient mode the translation of an expression statement, and of *)
(* the parameter list of a function definition, that holds no slice with a *)
(* step and no extended slice returns a fragment: the process goes on.     *)
C11_Totality ==
    /\ ~panicUnknown /\ ev.op \in {"ExprStmt", "FunctionDef"}
    /\ \A i \in DOMAIN ev.tg : Unsliced(ev.tg[i])
    => Running(proc)

-----------------------------------------------------------------------------
(* SpecStmt: modules of delete statements, of assignments that unpack a    *)
(* tuple and of classes whose bodies hold every kind of statement, in      *)
(* lenient and in strict mode.                                             *)

DelTargets ==
    {<<Subscript(Name("d"), Index(Str("k")))>>,
     <<Name("x")>>,
     <<Attribute(Name("o"), "a")>>,
     <<Subscript(Name("d"), Slice(Num(1), Nil, Nil))>>,
     <<Subscript(Name("d"), Index(Str("k"))), Name("x")>>}
(* a, b = 1, 2 and a = 3 *)
Unpack == [targets |-> <<TupleOf(<<Name("a"), Name("b")>>)>>, value |-> TupleOf(<<Num(1), Num(2)>>)]
Rebind == [targets |-> <<Name("a")>>, value |-> Num(3)]
Unpacks == {Unpack, Rebind}
MethodNames == {"__str__", "area"}
MethodParams == {Params(<<>>), Params(<<"self", "x">>)}
Conditions == {Name("ready")}
Messages == {Nil, Str("not ready")}
BodyMembers ==
    Members \cup {ExprStmtOf(Str("doc")), ExprStmtOf(CallOf(Name("g"), <<>>)),
                  Node("Return", "", 0, <<>>, <<>>)}

InitStmt ==
    /\ panicUnknown \in BOOLEAN
    /\ lineno = FALSE
    /\ input = <<>>
    /\ Start
    /\ rt = NoCall

DeleteStmt == Delete(DelTargets, MaxBodyStmts)
UnpackStmt == Assign(Unpacks, MaxBodyStmts)
AssertStmt == Assertion(Conditions, Messages, MaxBodyStmts)
NamedMethodStmt == NamedMethod(MethodNames, MethodParams, MaxBodyStmts, MaxBodyDepth)
BodyPassStmt == Pass(MaxBodyStmts)
BodyClassStmt == ClassDef(MaxBodyStmts, MaxBodyDepth)
BodyMemberStmt == ClassMember(BodyMembers, MaxBodyStmts)
BodyMethodStmt == Method(MethodArgs, MaxBodyStmts, MaxBodyDepth)

NextStmt ==
    \/ DeleteStmt
    \/ UnpackStmt
    \/ AssertStmt
    \/ NamedMethodStmt
    \/ BodyPassStmt
    \/ BodyClassStmt
    \/ BodyMemberStmt
    \/ BodyMethodStmt
    \/ EndMethod
    \/ EndClassDef
    \/ EndModule

SpecStmt == InitStmt /\ [][NextStmt]_vars

-----------------------------------------------------------------------------
(* Properties of SpecStmt.                                                 *)

IsIndexed(x) == x.k = "Subscript" /\ x.a[2].k = "Index"

(* C12: a delete of one target: a subscript by an index becomes the call   *)
(* delete(collection, key); a target that is no subscript ends the process *)
(* there, in lenient and in strict mode.                                   *)
C12_DeleteTargets ==
    ev.op = "Delete" /\ Len(ev.tg) = 1 =>
        /\ IsIndexed(ev.tg[1]) =>
              /\ Running(proc)
              /\ LastFrag(proc) = Stmt(<<Grp("delete", <<Id(ev.tg[1].a[1].s),
                                                        LitStr(ev.tg[1].a[2].a[1].s)>>)>>)
        /\ ev.tg[1].k # "Subscript" => Ended(proc)

(* C25: the header of a function definition in the body of a class is     *)
(* func, the receiver (first parameter *Class) when it has a parameter,    *)
(* the name, and the parameters without the first; it is no plain          *)
(* function and no closure assigned to the name; __str__ becomes String    *)
(* returning string.                                                       *)
C25_MethodHeader ==
    ev.op = "Method" /\ Len(ev.tg) = 2 =>
        LET pos == ev.tg[1].a[1].o
            name == ev.tg[2].s
            cls == proc.scopes[Depth(proc) - 1].fr.cls
            st == Cur(proc).fr.st
        IN /\ Running(proc)
           /\ Len(st.a) >= 4
           /\ st.a[1] = Tok("func", "")
           /\ st.a[2].k = "params"
           /\ pos # <<>> => st.a[2] = Grp("params", <<Stmt(<<Tok("id", pos[1]), Tok("op", "*"),
                                                            Tok("id", cls)>>)>>)
           /\ st.a[3] = IF name = "__str__" THEN Tok("id", "String") ELSE Id(name)
           /\ st.a[4] = Grp("params", <<Stmt(<<Grp("list", ParamFrags(Tail(pos)))>>)>>)
           /\ name = "__str__" => st.a[Len(st.a)] = Grp("params", <<Id("string")>>)

(* The source text of a condition that is a name. *)
SourceText(e) == e.s

(* C24: an assert statement becomes the call Assert(condition, message);   *)
(* the message is the translated message of the statement, and the source  *)
(* text of the condition when the statement has no message.                *)
C24_AssertMessage ==
    ev.op = "Assert" =>
        /\ Running(proc)
        /\ LastFrag(proc) =
              Stmt(<<Tok("id", "Assert"),
                     Grp("call", <<Id(ev.tg[1].s),
                                   LitStr(IF ev.tg[2] # Nil THEN ev.tg[2].s
                                          ELSE SourceText(ev.tg[1]))>>)>>)

(* The step visits the assignment a outside of a class. *)
Assigned(a) ==
    /\ AssignStep /\ ev'.tg = a.targets \o <<a.value>>
    /\ Depth(proc') = Depth(proc) /\ Cur(proc).fr.cls = ""

(* C20: the assignment a, b = 1, 2, with a and b in no scope of the chain,  *)
(* is emitted as a declaration and leaves a and b declared in the current   *)
(* scope; the assignment a = 3 that follows it in that scope is emitted     *)
(* without a declaration.                                                   *)
C20_UnpackedTargets ==
    /\ [][Assigned(Unpack) /\ ~InChain(proc.scopes, "a") /\ ~InChain(proc.scopes, "b") =>
             /\ IsDeclaration(LastFrag(proc'))
             /\ {"a", "b"} \subseteq Cur(proc').vars]_vars
    /\ [][Assigned(Rebind) /\ ev.op = "Assign" /\ ev.tg = Unpack.targets \o <<Unpack.value>> =>
             ~IsDeclaration(LastFrag(proc'))]_vars

Accepted(m) == m.k \in {"Pass", "Assign"} \/ (m.k = "ExprStmt" /\ m.a[1].k = "Str")
ClassParts == Cur(proc).fr.parts
LastPart == ClassParts[Len(ClassParts)]
FieldOf(m) ==
    Stmt(<<Tok("id", m.a[1].s), goAny, Tagged("comment", "=", 0, <<Atom(m.a[2])>>)>>)
Emitted(t) == UNION {{t.scopes[k].body[i] : i \in DOMAIN t.scopes[k].body} : k \in DOMAIN t.scopes}
StructsOf(t, cls) == {f \in UNION {Parts(b) : b \in Emitted(t)} : IsStruct(f, cls)}

(* C13: in the body of a class a documentation string becomes a comment of *)
(* the struct, pass adds nothing, an assignment becomes a field with its   *)
(* value in a comment and a function definition is buffered in the methods *)
(* of the scope of the class statement, not put in the struct; every other *)
(* statement, and an expression statement that is no string, ends the      *)
(* process in lenient and in strict mode, and no struct of the class is in *)
(* any body.                                                               *)
C13_ClassBodyPolicy ==
    /\ ev.op = "ClassMember" =>
          LET m == ev.tg[1] IN
          IF Accepted(m)
          THEN /\ Running(proc)
               /\ m.k = "Assign" => LastPart = FieldOf(m)
               /\ m.k = "ExprStmt" => LastPart = Comment(m.a[1].s, 0)
          ELSE /\ Ended(proc)
               /\ StructsOf(proc, Cur(proc).fr.cls) = {}
    /\ ev.op = "EndMethod" =>
          LET buffer == proc.scopes[Depth(proc) - 1].methods
              names == Cur(proc).fr.names
          IN /\ Running(proc)
             /\ Len(buffer) = Len(names)
             /\ \/ Tok("id", names[Len(names)]) \in Parts(buffer[Len(buffer)])
                \/ /\ names[Len(names)] = "__str__"
                   /\ Tok("id", "String") \in Parts(buffer[Len(buffer)])
             /\ \A i \in DOMAIN ClassParts : ~HoldsMethodOf(ClassParts[i], Cur(proc).fr.cls)
    /\ ev.op = "EndClassDef" =>
          LET cls == ev.tg[Len(ev.tg)].s IN Cardinality(StructsOf(proc, cls)) = 1

(* A class of a field and a method is translated: the struct holds the     *)
(* field, the method follows it.                                           *)
C13_Witness ==
    /\ ev.op = "EndClassDef" /\ Depth(proc) = 1 /\ Len(RootBody) = 2
    /\ RootBody[1].a[3] = Grp("struct", <<FieldOf(Node("Assign", "", 0, <<Name("x"), Num(1)>>, <<>>))>>)
    /\ IsMethodOf(RootBody[2], ev.tg[Len(ev.tg)].s)

(* What main has written: the head of the file with the imports, then the *)
(* fragments of the real pass.                                             *)
Stdout(t) == t.head \o t.out
Items(g) == {g.a[i] : i \in DOMAIN g.a}
StartsWith(q, p) == Len(p) <= Len(q) /\ SubSeq(q, 1, Len(p)) = p

(* C30: every fragment main prints has been through a discard pass on the *)
(* file of the module before the imports are printed.  A fragment enters   *)
(* the body of the root from the group the root has parsed, which the last *)
(* pass of parseBody renders, or from a buffer of methods, and a method    *)
(* fragment is rendered when its method ends; the imports main prints are  *)
(* the packages these passes registered and hold every package a printed   *)
(* fragment names; they come before the first fragment; the body of the    *)
(* root only grows and is printed whole.                                   *)
C30_TwoPhaseRender ==
    /\ [][ev'.op = "EndMethod" /\ Running(proc') =>
             LET ms == proc'.scopes[Depth(proc') - 1].methods
             IN /\ ms # <<>>
                /\ ms[Len(ms)] = proc'.file.group
                /\ Quals(ms[Len(ms)]) \subseteq proc'.file.imports]_vars
    /\ [][/\ proc.file.imports \subseteq proc'.file.imports
          /\ StartsWith(proc'.scopes[1].body, proc.scopes[1].body)
          /\ \A i \in (Len(RootBody) + 1)..Len(proc'.scopes[1].body) :
                proc'.scopes[1].body[i] \in
                   Items(proc'.scopes[1].parsed) \cup SeqRange(Buffered(proc, Depth(proc)))
          /\ ev'.op = "EndModule" =>
                /\ proc'.file.group = proc.scopes[1].parsed
                /\ proc'.scopes[1].body = RootBody]_vars
    /\ [](/\ \A f \in SeqRange(Buffered(proc, Depth(proc))) :
                Quals(f) \subseteq proc.file.imports
          /\ Items(proc.scopes[1].parsed) \subseteq SeqRange(RootBody))
    /\ [](proc.status = "printed" =>
            /\ Len(Stdout(proc)) = Len(RootBody) + 5
            /\ Stdout(proc)[4] = Grp("imports", RenderImports(proc.file.imports))
            /\ SubSeq(Stdout(proc), 5, Len(Stdout(proc))) = RootBody \o <<Line>>
            /\ Buffered(proc, Depth(proc)) = <<>>
            /\ \A i \in DOMAIN RootBody :
                  \A p \in Quals(RootBody[i]) : Tok("pkg", p) \in Items(Stdout(proc)[4]))

C30_Witness ==
    /\ proc.status = "printed"
    /\ \E i \in DOMAIN RootBody :
          /\ RootBody[i] \notin Items(proc.file.group)
          /\ Quals(RootBody[i]) # {}
    /\ Quals(proc.file.group) = {}
    /\ Stdout(proc)[4].a # <<>>

-----------------------------------------------------------------------------
(* SpecBlocks: modules of assignments in the bodies and the other clauses  *)
(* of if, for, while, try and with statements and of functions, and of     *)
(* classes.                                                                *)

BlockAssigns ==
    {[targets |-> <<Name("v")>>, value |-> Num(1)],
     [targets |-> <<Name("x")>>, value |-> Num(2)]}
(* The exception type of a handler is set by the line it follows, as the   *)
(* name of a function is set by its line.                                  *)
Excepts == {Name(IF ev.line % 2 = 0 THEN "KeyError" ELSE "OSError")}
LoopTargets == {Name("i")}
LoopIters == {Name("xs")}

InitBlocks ==
    /\ panicUnknown = FALSE
    /\ lineno = FALSE
    /\ input = <<>>
    /\ Start
    /\ rt = NoCall

(* A block holds at least one statement, so none opens on the last line. *)
BlockAssign == Assign(BlockAssigns, MaxBlockStmts)
BlockDef == FunctionDef(FuncArgs, MaxBlockStmts - 1, MaxBlockDepth)
BlockIf == If(Tests, MaxBlockStmts - 1, MaxBlockDepth)
BlockFor == For(LoopTargets, LoopIters, MaxBlockStmts - 1, MaxBlockDepth)
BlockWhile == While(Tests, MaxBlockStmts - 1, MaxBlockDepth)
BlockWith == With(Contexts, MaxBlockStmts - 1, MaxBlockDepth)
BlockTry == Try(MaxBlockStmts - 1, MaxBlockDepth)
BlockExcept == Except(Excepts)
BlockClass == ClassDef(MaxBlockStmts - 1, MaxBlockDepth)
BlockMember == ClassMember({Node("Pass", "", 0, <<>>, <<>>)}, MaxBlockStmts)

NextBlocks ==
    \/ BlockAssign
    \/ BlockDef
    \/ EndFunctionDef
    \/ BlockIf
    \/ BlockFor
    \/ BlockWhile
    \/ Else
    \/ EndLoopOrIf
    \/ BlockWith
    \/ EndWith
    \/ BlockTry
    \/ BlockExcept
    \/ OrElse
    \/ Finally
    \/ EndTry
    \/ BlockClass
    \/ BlockMember
    \/ EndClassDef
    \/ EndModule

SpecBlocks == InitBlocks /\ [][NextBlocks]_vars

(* The statements of a translated try that run, in order, as indices into  *)
(* the emitted statement: the test with its closure, then the block of the *)
(* test when err is not nil and its else block otherwise, then every block *)
(* that follows the if statement on a line of its own.                     *)
RunTry(st, raised) ==
    LET n == Len(st.a)
        branch == IF raised THEN <<2>>
                  ELSE IF n >= 4 /\ st.a[3] = Tok("else", "") THEN <<4>>
                  ELSE <<>>
        after == SelectSeq([i \in 1..n |-> i],
                           LAMBDA i : i > 2 /\ st.a[i].k = "block" /\ st.a[i - 1] = Tok("line", ""))
    IN <<1>> \o branch \o after

TryTest(body) ==
    Grp("if", <<Stmt(<<Tok("err", ""), Tok("op", ":="), Tok("func", ""),
                       Grp("params", <<>>), Grp("params", <<goException>>),
                       Grp("block", body), Grp("call", <<>>)>>),
                Stmt(<<Tok("err", ""), Tok("op", "!="), Tok("nil", "")>>)>>)

TrySwitch(hs) ==
    IF hs = <<>> THEN Null
    ELSE Stmt(<<Grp("switch", <<Stmt(<<Tok("err", "")>>)>>),
                Grp("block", <<Comment("except", 0)>> \o hs)>>)

TryShape(st, parts) ==
    LET hs == Handlers(parts)
        else == PartsOf(parts, "else")
        final == PartsOf(parts, "final")
        n == 2 + (IF else # <<>> THEN 2 ELSE 0) + (IF final # <<>> THEN 2 ELSE 0)
    IN /\ st.k = "stmt" /\ Len(st.a) = n
       /\ st.a[1] = TryTest(PartsOf(parts, "try")[1].a)
       /\ st.a[2] = Grp("block", <<TrySwitch(hs)>>)
       /\ else # <<>> =>
             /\ st.a[3] = Tok("else", "") /\ st.a[4] = Grp("block", else[1].a)
             /\ RunTry(st, FALSE)[2] = 4
             /\ \A i \in DOMAIN RunTry(st, TRUE) : RunTry(st, TRUE)[i] # 4
       /\ final # <<>> =>
             /\ st.a[n - 1] = Tok("line", "")
             /\ st.a[n] = Grp("block", <<Comment("finally", 0)>> \o final[1].a)
             /\ \A raised \in BOOLEAN :
                   RunTry(st, raised)[Len(RunTry(st, raised))] = n
       /\ RunTry(st, TRUE)[2] = 2
       /\ else = <<>> /\ final = <<>> => RunTry(st, FALSE) = <<1>>

C26_FinallyWitness ==
    /\ ev.op = "EndTry" /\ Running(proc)
    /\ Len(LastFrag(proc).a) = 4
    /\ LastFrag(proc).a[3] = Tok("line", "")
    /\ RunTry(LastFrag(proc), FALSE) = <<1, 4>>
    /\ RunTry(LastFrag(proc), TRUE) = <<1, 2, 4>>

(* The chain of scopes as what tells one scope from another: its level,    *)
(* the construct that pushed it and the line of that construct.            *)
Ident(sc) == <<sc.level, sc.fr.kind, sc.fr.line>>
Idents(t) == [k \in 1..Depth(t) |-> Ident(t.scopes[k])]

Pushes ==
    [FunctionDef |-> "func", ClassDef |-> "class", If |-> "if", For |-> "for",
     While |-> "while", Try |-> "try", With |-> "with"]
Pops ==
    [EndFunctionDef |-> {"func"}, EndClassDef |-> {"class"},
     EndLoopOrIf |-> {"if", "for", "while"}, EndTry |-> {"try"}, EndWith |-> {"with"}]

(* C27: the scopes are one chain from the root to the current scope, the   *)
(* level of a scope is the number of its ancestors; a function, class, if, *)
(* for, while, try or with pushes one child and the end of that construct  *)
(* pops that child, the last pushed first; no other step changes the       *)
(* chain; the root is never popped; when the module has been parsed the    *)
(* only scope is the root.                                                 *)
C27_ScopeStack ==
    /\ [](/\ Depth(proc) >= 1
          /\ \A k \in 1..Depth(proc) : proc.scopes[k].level = k - 1
          /\ \A k \in 2..Depth(proc) : proc.scopes[k].fr.line > proc.scopes[k - 1].fr.line
          /\ proc.status = "printed" => Depth(proc) = 1)
    /\ [][IF ev'.op \in DOMAIN Pushes
          THEN Idents(proc') =
                 Append(Idents(proc), <<Depth(proc), Pushes[ev'.op], ev'.line>>)
          ELSE IF ev'.op \in DOMAIN Pops
          THEN /\ Depth(proc) >= 2
               /\ Cur(proc).fr.kind \in Pops[ev'.op]
               /\ Idents(proc') = SubSeq(Idents(proc), 1, Depth(proc) - 1)
          ELSE Idents(proc') = Idents(proc)]_vars

C27_Witness ==
    /\ proc.status = "printed" /\ Depth(proc) = 1
    /\ Len(RootBody) = 3
    /\ \A i \in {1, 3} : \E b \in Parts(RootBody[i]) : b.k = "block"

Declared(t, nn) == \E k \in 1..Depth(t) : nn \in t.scopes[k].vars
IsVar(f) == Len(f.a) > 0 /\ f.a[1] = Tok("var", "")

(* C28: the names of a block end with it.  The end of an if, a loop, a     *)
(* try, a with block or a function leaves the names of the scopes that     *)
(* stay as they were, so a name first assigned in the block is declared    *)
(* nowhere afterwards; an assignment is emitted as a declaration exactly   *)
(* when its target is declared in no live scope, and declares it in the    *)
(* current scope only; the parameters of a function are the names of its   *)
(* own scope and of no other, so an assignment to a parameter in the body  *)
(* is a rebind.                                                            *)
C28_BlockLocalNames ==
    [][/\ ev'.op \in DOMAIN Pops =>
             \A k \in 1..Depth(proc') : proc'.scopes[k].vars = proc.scopes[k].vars
       /\ ev'.op = "FunctionDef" =>
             /\ Cur(proc').vars = SeqRange(ev'.tg[1].a[1].o)
             /\ \A k \in 1..Depth(proc) : proc'.scopes[k].vars = proc.scopes[k].vars
       /\ ev'.op = "Assign" =>
             /\ IsVar(LastFrag(proc')) <=> ~Declared(proc, ev'.tg[1].s)
             /\ Cur(proc).fr.kind = "func" /\ ev'.tg[1].s \in Cur(proc).vars
                  => ~IsVar(LastFrag(proc'))
             /\ Cur(proc').vars = Cur(proc).vars \cup
                   (IF Declared(proc, ev'.tg[1].s) THEN {} ELSE {ev'.tg[1].s})
             /\ \A k \in 1..(Depth(proc) - 1) : proc'.scopes[k].vars = proc.scopes[k].vars]_vars

C28_Witness ==
    /\ ev.op = "Assign" /\ Running(proc) /\ Depth(proc) = 1
    /\ ev.tg[1].s = "v"
    /\ IsVar(LastFrag(proc))
    /\ RootBody[1].a[1] = Tok("func", "")
    /\ LastFrag(proc) \in Parts(RootBody[1])
    /\ \E f \in Parts(RootBody[1]) :
          /\ f.k = "stmt" /\ Len(f.a) = 3
          /\ f.a[1] = Tok("id", "x") /\ f.a[2] = Tok("op", "=")
    /\ ~Declared(proc, "x")

(* The clauses of the construct of frame fr that are closed: the groups of *)
(* statements parsed for the body of an if or a loop whose else has begun, *)
(* and for the try body, the handlers, the else and the finally of a try.  *)
ClosedPart(p) ==
    CASE p.k = "try" -> <<p.a[2]>>
      [] p.k = "stmt" -> IF Len(p.a) = 2 THEN <<p.a[2].a[1]>> ELSE <<>>
      [] OTHER -> <<p.a[1]>>

RECURSIVE ClosedParts(_)
ClosedParts(parts) ==
    IF parts = <<>> THEN <<>> ELSE ClosedPart(Head(parts)) \o ClosedParts(Tail(parts))

ClosedClauses(fr) ==
    IF fr.kind \in {"if", "for", "while"}
    THEN IF fr.phase = "else" THEN <<fr.st.a[Len(fr.st.a)].a[1]>> ELSE <<>>
    ELSE IF fr.kind = "try" THEN ClosedParts(fr.parts)
    ELSE <<>>

(* The names a group of statements declares with var. *)
VarsOf(parsed) ==
    {parsed.a[i].a[2].a[1].s : i \in {j \in DOMAIN parsed.a : IsVar(parsed.a[j])}}

FirstAssigned(fr) == UNION {VarsOf(ClosedClauses(fr)[i]) : i \in DOMAIN ClosedClauses(fr)}

ClauseSteps == {"Else", "Except", "OrElse", "Finally"}

(* C29: the clauses of one if, loop or try are translated in one scope.    *)
(* The step from a clause to the next one keeps the chain of scopes and    *)
(* the names of every scope, and an assignment to a name that an earlier   *)
(* clause of the same construct declared is emitted without var.           *)
C29_SharedClauseScope ==
    [][/\ ev'.op \in ClauseSteps =>
             /\ Idents(proc') = Idents(proc)
             /\ \A k \in 1..Depth(proc) : proc'.scopes[k].vars = proc.scopes[k].vars
       /\ ev'.op = "Assign" /\ ev'.tg[1].s \in FirstAssigned(Cur(proc).fr) =>
             /\ Running(proc')
             /\ ~IsVar(LastFrag(proc'))
             /\ LastFrag(proc').a[1] = Tok("id", ev'.tg[1].s)
             /\ LastFrag(proc').a[2] = Tok("op", "=")]_vars

C29_Witness ==
    /\ ev.op = "Assign" /\ Running(proc)
    /\ Kind = "if" /\ Phase = "else"
    /\ ev.tg[1].s \in FirstAssigned(Cur(proc).fr)
    /\ LastFrag(proc).a[1] = Tok("id", ev.tg[1].s)

C29_TryWitness ==
    /\ ev.op = "Assign" /\ Running(proc)
    /\ Kind = "try" /\ Phase = "final"
    /\ ev.tg[1].s \in FirstAssigned(Cur(proc).fr)
    /\ LastFrag(proc).a[1] = Tok("id", ev.tg[1].s)

-----------------------------------------------------------------------------
(* SpecGen: a module of one generator expression over ranges is translated *)
(* and the emitted program runs.  Once the closure is called, it and every *)
(* goroutine that can run do run (the Go scheduler); a consumer that may   *)
(* give up does so when it wants.                                          *)

Counts == {Range(<<Num(n)>>) : n \in 0..MaxCount} \cup {Range(<<Num(1), Num(MaxCount + 2), Num(2)>>)}
GenInputs ==
    {GeneratorExp(Name("x"), <<Comprehension(Name("x"), r, <<>>)>>) : r \in Counts}
    \cup {GeneratorExp(Num(7), <<Comprehension(Name("x"), Range(<<Num(2)>>), <<>>)>>)}
    \cup {GeneratorExp(Name(e), <<Comprehension(Name("x"), r1, <<>>),
                                  Comprehension(Name("y"), r2, <<>>)>>) :
             e \in {"x", "y"}, r1 \in Counts, r2 \in Counts}

InitGen ==
    /\ panicUnknown = FALSE
    /\ lineno = FALSE
    /\ input \in {<<ExprStmtOf(g)>> : g \in GenInputs}
    /\ Start
    /\ rt = NoCall

GenInput == ExprInput
GenPrinted == EndInput

NextGen ==
    \/ GenInput
    \/ GenPrinted
    \/ GenCall
    \/ GenMake
    \/ GenGo
    \/ GenReturn
    \/ ProducerSend
    \/ ProducerClose
    \/ ProducerExit
    \/ ConsumerRecv
    \/ ConsumerStop

Closure_ == GenCall \/ GenMake \/ GenGo \/ GenReturn
Producer == ProducerSend \/ ProducerClose \/ ProducerExit

SpecGen ==
    /\ InitGen /\ [][NextGen]_vars
    /\ WF_vars(Closure_)
    /\ WF_vars(Producer)
    /\ WF_vars(ConsumerRecv)

-----------------------------------------------------------------------------
(* Properties of SpecGen.                                                  *)

(* The values the generator expression of the input yields in Python: the  *)
(* element, for the values of the loop variables in loop order.            *)
RangeSeq(lo, hi, st) == [i \in 1..((hi - lo + st - 1) \div st) |-> lo + (i - 1) * st]
RangeOf(args) ==
    IF Len(args) = 1 THEN RangeSeq(0, args[1].n, 1) ELSE RangeSeq(args[1].n, args[2].n, args[3].n)
NodeValue(e, env) == IF e.k = "Num" THEN e.n ELSE env[e.s]
RECURSIVE Yields(_, _, _), YieldsOver(_, _, _, _, _)
Yields(elt, gens, env) ==
    IF gens = <<>> THEN <<NodeValue(elt, env)>>
    ELSE YieldsOver(RangeOf(Tail(Head(gens).a[2].a)), Head(gens).a[1].s, elt, Tail(gens), env)
YieldsOver(vals, var, elt, gens, env) ==
    IF vals = <<>> THEN <<>>
    ELSE Yields(elt, gens, Bind(env, var, Head(vals)))
         \o YieldsOver(Tail(vals), var, elt, gens, env)
Expected == Yields(input[1].a[1].a[1], Tail(input[1].a[1].a), [n \in {} |-> 0])

IsPrefix(p, q) == Len(p) <= Len(q) /\ p = SubSeq(q, 1, Len(p))
SendsLeft(r) == Len(SelectSeq(r.todo, LAMBDA o : o.op = "send"))
Called == run.caller > 0
Returned == run.consumer # "none"

(* C15: the closure makes the channel, starts the goroutine and returns    *)
(* the channel in every run, before any value is received; the goroutine   *)
(* never panics and closes the channel once, when it has no value left to  *)
(* send; what the consumer has received is at any time the first values    *)
(* the generator expression yields, and all of them when it sees the       *)
(* close; with a consumer that receives until the close, the goroutine     *)
(* ends and the consumer sees the close.                                   *)
C15_GeneratorPattern ==
    /\ [](run.producer # "panic" /\ run.closes <= 1)
    /\ [](run.closed => SendsLeft(run) = 0)
    /\ [](IsPrefix(run.received, Expected))
    /\ [](~Returned => run.received = <<>>)
    /\ [](run.consumer = "done" => run.closed /\ run.received = Expected)
    /\ Called ~> Returned
    /\ (Called /\ run.patient) ~> (run.producer = "done" /\ run.consumer = "done")

(* (x for x in range(2) for y in range(2)), received to the end. *)
C15_Witness ==
    /\ run.consumer = "done" /\ run.producer = "done"
    /\ run.received = <<0, 0, 1, 1>>

(* C16: the goroutine is never parked on a send. *)
C16_NoBackpressure == run.producer # "blocked"

Abandoned == run.consumer = "stopped" /\ SendsLeft(run) > 0

(* C17: the consumer sees the end only by the close; a consumer that has   *)
(* stopped receives no more, and when the goroutine then has a value left  *)
(* to send, it sends and closes nothing any more: it gets parked on the    *)
(* send and stays parked.                                                  *)
C17_NoCancellation ==
    /\ [](run.consumer = "done" => run.closed)
    /\ [][run.consumer = "stopped" => run'.consumer = "stopped"]_vars
    /\ [][Abandoned =>
            /\ run'.todo = run.todo /\ run'.received = run.received
            /\ ~run'.closed /\ run'.producer \in {"run", "blocked"}]_vars
    /\ [][Abandoned /\ run.producer = "blocked" => run'.producer = "blocked"]_vars
    /\ Abandoned ~> (run.producer = "blocked")

(* The consumer received one value of four and stopped; the goroutine is   *)
(* parked on the second.                                                   *)
C17_Witness ==
    /\ run.consumer = "stopped" /\ run.producer = "blocked"
    /\ run.received = <<0>> /\ SendsLeft(run) = 3 /\ ~run.closed

-----------------------------------------------------------------------------
(* The runtime package (package runtime of the emitted programs).  A Go    *)
(* value of type Any is a record of its dynamic type t and its value: s    *)
(* the characters of a string, n a number, e the elements of a List or a   *)
(* Tuple (both are []Any), m the <<key, value>> pairs of a Dict.           *)

GoValue(t, s_, n, e, m) == [t |-> t, s |-> s_, n |-> n, e |-> e, m |-> m]
GoString(chars) == GoValue("string", chars, 0, <<>>, {})
GoInt(n) == GoValue("int", <<>>, n, <<>>, {})
GoFloat(n) == GoValue("float64", <<>>, n, <<>>, {})
GoSlice(elems) == GoValue("slice", <<>>, 0, elems, {})
GoMap(pairs) == GoValue("map", <<>>, 0, <<>>, pairs)

(* v == value on two interface values: false when the dynamic types        *)
(* differ; a run-time panic when they are the same type and that type is   *)
(* not comparable (slices and maps).                                       *)
InterfaceEq(a, b) ==
    IF a.t # b.t THEN "false"
    ELSE IF a.t \in {"slice", "map"} THEN "panic"
    ELSE IF a = b THEN "true" ELSE "false"

(* strings.Contains *)
stringsContains(c, sub) ==
    \E i \in 0..(Len(c) - Len(sub)) : SubSeq(c, i + 1, i + Len(sub)) = sub

(* for _, v := range c { if v == value { return true } } *)
RECURSIVE ContainsElem(_, _)
ContainsElem(c, value) ==
    IF c = <<>> THEN "false"
    ELSE Let(InterfaceEq(Head(c), value), LAMBDA eq :
         IF eq = "false" THEN ContainsElem(Tail(c), value) ELSE eq)

Contains(bag, value) ==
    CASE bag.t = "map" ->
            IF value.t = "string" /\ \E p \in bag.m : p[1] = value.s THEN "true" ELSE "false"
      [] bag.t = "slice" -> ContainsElem(bag.e, value)
      [] bag.t = "string" ->
            IF value.t = "string" /\ stringsContains(bag.s, value.s) THEN "true" ELSE "false"
      [] OTHER -> "false"

CallContains ==
    /\ rt.ret = "none"
    /\ rt' = [rt EXCEPT !.ret = Contains(rt.bag, rt.value)]
    /\ UNCHANGED <<panicUnknown, lineno, module, proc, alone, input, ev, run>>

-----------------------------------------------------------------------------
(* SpecContains: Contains is called on a bag and a value.                  *)

Fox == <<"f", "o", "x">>
Scalars ==
    {GoString(Fox), GoString(<<"o", "x">>), GoString(<<"o", "f">>), GoString(<<>>),
     GoInt(1), GoFloat(1)}
Values == Scalars \cup {GoSlice(<<>>), GoSlice(<<GoInt(1)>>)}
Bags ==
    {GoSlice(es) : es \in SeqsOf(Values, 0, MaxElems)}
    \cup {GoMap({<<k, GoInt(1)>> : k \in ks}) : ks \in SUBSET {Fox, <<"o", "x">>}}
    \cup Scalars

InitContains ==
    /\ panicUnknown = FALSE
    /\ lineno = FALSE
    /\ input = <<>>
    /\ Start
    /\ rt \in {[bag |-> b, value |-> v, ret |-> "none"] : b \in Bags, v \in Values}

NextContains == CallContains

SpecContains == InitContains /\ [][NextContains]_vars

(* C18: Contains returns, and returns true exactly when the bag is a       *)
(* string and the value a string that occurs in it, or the bag is a List   *)
(* or a Tuple and one of its elements equals the value, or the bag is a    *)
(* Dict and the value a string that is one of its keys.                    *)
C18_Contains ==
    rt.ret # "none" =>
        /\ rt.ret \in {"true", "false"}
        /\ rt.ret = "true" <=>
              \/ /\ rt.bag.t = "string" /\ rt.value.t = "string"
                 /\ stringsContains(rt.bag.s, rt.value.s)
              \/ rt.bag.t = "slice" /\ \E i \in DOMAIN rt.bag.e : rt.bag.e[i] = rt.value
              \/ /\ rt.bag.t = "map" /\ rt.value.t = "string"
                 /\ \E p \in rt.bag.m : p[1] = rt.value.s

====
